---- MODULE Spec2Model ----
(***************************************************************************)
(* The multi-source collection cycle of sonnenbatterie-exporter.           *)
(*                                                                         *)
(* The repository holds three revisions of the collector:                  *)
(*   "main_go"   src/main.go          system + consumption + status        *)
(*   "part_000"  src/unnamed/part_000 latestdata + status, power values    *)
(*                                    from latestdata                      *)
(*   "part_001"  src/unnamed/part_001 latestdata + status, power values    *)
(*                                    from status (current collector.go)   *)
(* Collect is the same in the three; collectBattery differs.  The revision *)
(* is fixed in Init and never changes.                                     *)
(*                                                                         *)
(* float64 telemetry values are modelled by integers.                      *)
(***************************************************************************)
EXTENDS Integers, Sequences, FiniteSets, TLC

(* ---------------------------- bounds ---------------------------------- *)
MaxBatteries == 2
ChanCap == 1
MaxDescribeCalls == 2
MaxCycles == 2

(* ------------------------ program constants --------------------------- *)
StatusOK == 200
MilliPerUnit == 1000

Variants == {"main_go", "part_000", "part_001"}

VARIABLES
    variant,     \* which revision of collectBattery runs
    batteries,   \* Collector.batteries
    device,      \* device[ip]: the JSON documents the device at ip serves
    collectPc,   \* position of Collect: "idle", "loop", "returned"
    loopIdx,     \* next index of `for _, battery := range c.batteries`
    wg,          \* sync.WaitGroup counter
    taskPc,      \* position of each collectBattery goroutine
    arg,         \* arg[i]: the Battery goroutine i was started with (b)
    net,         \* the answers the network can give in this run
    resp,        \* resp[i][endpoint]: the answer task i got from the network
    pending,     \* pending[i]: the sends task i has still to do, in order
    ch,          \* the metric channel (buffer content)
    closed,      \* the caller closed the channel
    received,    \* what the caller drained from the channel (a bag)
    emitted,     \* emitted[i]: what task i has sent so far, in order
    requests,    \* HTTP requests issued (a bag: how often each was sent)
    panicked,    \* a goroutine panicked (send on a closed channel, or
                 \* MustNewConstMetric with the wrong number of label values)
    env,         \* the process environment main reads
    mainPc,      \* position of main: "start", "fatal", "serving"
    descs,       \* the *prometheus.Desc fields of the Collector
    described,   \* what each call of Describe has sent, one entry per call
    logs,        \* the lines written with log.Printf
    target,      \* target[i][endpoint]: what task i's fetch left in its target
    prior        \* prior[c]: the answers, documents and sends of the c-th
                 \* finished cycle, once the next scrape has begun

vars == <<variant, batteries, device, net, collectPc, loopIdx, wg, taskPc, arg,
          resp, pending, ch, closed, received, emitted, requests, panicked,
          env, mainPc, descs, described, logs, target, prior>>

(* ------------------------- strconv.Itoa -------------------------------- *)
Digit(d) ==
    CASE d = 0 -> "0" [] d = 1 -> "1" [] d = 2 -> "2" [] d = 3 -> "3"
      [] d = 4 -> "4" [] d = 5 -> "5" [] d = 6 -> "6" [] d = 7 -> "7"
      [] d = 8 -> "8" [] d = 9 -> "9"

RECURSIVE ItoaNat(_)
ItoaNat(n) == IF n < 10 THEN Digit(n) ELSE ItoaNat(n \div 10) \o Digit(n % 10)

Itoa(n) == IF n < 0 THEN "-" \o ItoaNat(-n) ELSE ItoaNat(n)

(* --------------------- configuration and devices ---------------------- *)
BatteryNames == <<"house", "garage", "shed", "barn">>

\* Battery{Name, IP, AuthToken}; main.go's Battery{Name, APIURL} uses IP as
\* the host of its APIURL and has no token.
BatteryAt(k) ==
    [Name |-> BatteryNames[k], IP |-> "10.0.0." \o Itoa(k), AuthToken |-> "token" \o Itoa(k)]

\* The documents device k serves: LatestData and Status of the v2 API,
\* System / Consumption / Status of sonnenBatterie-api.  Every field
\* differs between two devices.
DeviceAt(k) ==
    [ latestdata |->
        [ ConsumptionW |-> 700 + k, FullChargeCapacity |-> 5000 + k,
          GridFeedInW |-> 0 - 250 - k, PacTotalW |-> 100 + k,
          ProductionW |-> 500 + k, RSOC |-> 80 + k, USOC |-> 70 + k,
          ICStatus |-> [ StateBMS |-> "bms" \o Itoa(k),
                         StateCoreControlModule |-> "ccm" \o Itoa(k),
                         StateInverter |-> "inv" \o Itoa(k),
                         NrBatteryModules |-> k ] ],
      status |->
        [ BatteryCharging |-> (k % 2 = 1), BatteryDischarging |-> (k % 2 = 0),
          ConsumptionW |-> 750 + k, GridFeedInW |-> 0 - 300 - k,
          PacTotalW |-> 0 - 40 - k, ProductionW |-> 600 + k,
          Uac |-> 230 + k, Ubat |-> 50 + k, Fac |-> 60 + k ],
      system |->
        [ IP |-> "192.168.1." \o Itoa(k), WanIP |-> "31.31.31." \o Itoa(k),
          Model |-> "eco" \o Itoa(k), MAC |-> "AA:BB:" \o Itoa(k),
          SoftwareVersion |-> "1.8." \o Itoa(k),
          HardwareVersion |-> "hw" \o Itoa(k), LED |-> "led" \o Itoa(k) ],
      consumption |-> [ CurrentMW |-> 1500000 + k ],
      apistatus |->
        [ GridFeedInMW |-> 500000 + k, ProductionMW |-> 3000000 + k,
          ChargeLevel |-> 40 + k,
          ChargeMode |-> IF k % 2 = 1 THEN "charging" ELSE "discharging" ] ]

\* The zero values of the structs the fetch functions declare
\* (`var data LatestData`, `var status Status`, ...).
ZeroDocs ==
    [ latestdata |->
        [ ConsumptionW |-> 0, FullChargeCapacity |-> 0, GridFeedInW |-> 0,
          PacTotalW |-> 0, ProductionW |-> 0, RSOC |-> 0, USOC |-> 0,
          ICStatus |-> [ StateBMS |-> "", StateCoreControlModule |-> "",
                         StateInverter |-> "", NrBatteryModules |-> 0 ] ],
      status |->
        [ BatteryCharging |-> FALSE, BatteryDischarging |-> FALSE,
          ConsumptionW |-> 0, GridFeedInW |-> 0, PacTotalW |-> 0,
          ProductionW |-> 0, Uac |-> 0, Ubat |-> 0, Fac |-> 0 ],
      system |->
        [ IP |-> "", WanIP |-> "", Model |-> "", MAC |-> "",
          SoftwareVersion |-> "", HardwareVersion |-> "", LED |-> "" ],
      consumption |-> [ CurrentMW |-> 0 ],
      apistatus |->
        [ GridFeedInMW |-> 0, ProductionMW |-> 0, ChargeLevel |-> 0,
          ChargeMode |-> "" ] ]

(* --------------------------- the network ------------------------------ *)
NoResp   == [net |-> "none",     code |-> 0, valid |-> FALSE]
Refused  == [net |-> "refused",  code |-> 0, valid |-> FALSE]
TimedOut == [net |-> "timeout",  code |-> 0, valid |-> FALSE]
Http(c, v) == [net |-> "response", code |-> c, valid |-> v]

\* What one GET can come back with: connection error, client timeout,
\* 401 without a body, 500 with a JSON error document, 200 with an
\* undecodable body, 200 with the device's document.
Outcomes == {Refused, TimedOut, Http(401, FALSE), Http(500, TRUE),
             Http(200, FALSE), Http(200, TRUE)}

\* The answers the network gives in a run: every kind when there is one
\* battery (or none), a timeout, a 401 and good answers when there are two,
\* a 401 and good answers when there are more.
PairOutcomes == {TimedOut, Http(401, FALSE), Http(200, TRUE)}

CrowdOutcomes == {Http(401, FALSE), Http(200, TRUE)}

NetFor(bs) ==
    IF Len(bs) <= 1 THEN Outcomes
    ELSE IF Len(bs) = 2 THEN PairOutcomes
    ELSE CrowdOutcomes

NoResps == [latestdata |-> NoResp, status |-> NoResp,
            system |-> NoResp, consumption |-> NoResp]

(* ----------------------------- fetchJSON ------------------------------ *)
\* fetchJSON without the status check
fetchJSON_noStatusCheck(r) ==
    IF r.net # "response" THEN "fetch"
    ELSE IF ~r.valid THEN "decode"
    ELSE "nil"

\* fetchJSON accepting every 2xx status
fetchJSON_any2xx(r) ==
    IF r.net # "response" THEN "fetch"
    ELSE IF r.code < StatusOK \/ r.code > StatusOK + 99 THEN "status"
    ELSE IF ~r.valid THEN "decode"
    ELSE "nil"

\* fetchJSON ignoring the error of the decoder
fetchJSON_noDecodeCheck(r) ==
    IF r.net # "response" THEN "fetch"
    ELSE IF r.code # StatusOK THEN "status"
    ELSE "nil"

\* The error fetchJSON returns for an answer: "nil", or which of its three
\* error returns was taken.
fetchJSON(r) ==
    IF r.net # "response" THEN "fetch"
    ELSE IF r.code # StatusOK THEN "status"
    ELSE IF ~r.valid THEN "decode"
    ELSE "nil"

\* fmt.Sprintf("http://%s/api/v2/latestdata", battery.IP); in main.go
\* apiURL + "/api/system", the battery's APIURL being http://<IP>.
URL(b, path) == "http://" \o b.IP \o path

\* The status error without the code in its message
fetchJSONError_noCode(url, r) ==
    CASE fetchJSON(r) = "fetch"  -> "failed to fetch " \o url \o ": " \o r.net
      [] fetchJSON(r) = "status" -> "unexpected status code from " \o url
      [] fetchJSON(r) = "decode" -> "failed to decode JSON from " \o url \o ": invalid"
      [] fetchJSON(r) = "nil"    -> ""

\* The message of the error fetchJSON returns, "" for nil.  The text of the
\* wrapped library error (%w) is stood for by the kind of the failure.
fetchJSONError(url, r) ==
    CASE fetchJSON(r) = "fetch"  -> "failed to fetch " \o url \o ": " \o r.net
      [] fetchJSON(r) = "status" ->
           "unexpected status code " \o Itoa(r.code) \o " from " \o url
      [] fetchJSON(r) = "decode" -> "failed to decode JSON from " \o url \o ": invalid"
      [] fetchJSON(r) = "nil"    -> ""

\* What the target of fetchJSON holds afterwards: the decoded document when
\* the decoder ran on a decodable body, otherwise the zero value it was
\* declared with.
fetchJSONTarget(r, doc, zero) ==
    IF fetchJSON(r) = "nil" THEN doc ELSE zero

\* log.Printf(format, battery.Name, err): the lines collectBattery writes
\* for a failed fetch of the endpoint.
logLines(v, b, path, r) ==
    LET err == fetchJSONError(URL(b, path), r)
    IN IF fetchJSON(r) = "nil" THEN {}
       ELSE CASE path = "/api/v2/latestdata" ->
                   {"Error fetching latest data for " \o b.Name \o ": " \o err}
              [] path = "/api/v2/status" ->
                   {"Error fetching status for " \o b.Name \o ": " \o err}
              [] path = "/api/system" ->
                   {"Error fetching system info for " \o b.Name \o ": " \o err}
              [] path = "/api/consumption" ->
                   {"Error fetching consumption for " \o b.Name \o ": " \o err}
              [] path = "/api/status" ->
                   {"Warning: Could not fetch status for " \o b.Name
                      \o " (will use partial metrics): " \o err,
                    "Status endpoint unavailable for " \o b.Name
                      \o ", some metrics will be missing"}

(* ------------------------------ metrics ------------------------------- *)
\* prometheus.MustNewConstMetric(desc, GaugeValue, value, labels...)
Metric(desc, value, labels) == [desc |-> desc, value |-> value, labels |-> labels]

(* ---------------------- descriptors (NewCollector) -------------------- *)
\* prometheus.NewDesc(fqName, help, variableLabels, nil); the help text is
\* left out.
NewDesc(fqName, variableLabels) == [fqName |-> fqName, variableLabels |-> variableLabels]

StateLabels == <<"battery_name", "bms_state", "inverter_state">>

InfoLabels == <<"battery_name", "bms_state", "core_control_state", "inverter_state",
                "battery_modules", "ip">>

ModelLabels == <<"battery_name", "model", "mac">>

ModelInfoLabels == <<"battery_name", "model", "mac", "sw_version", "hw_version",
                     "led", "ip", "wan_ip">>

\* The descriptor fields NewCollector fills in, by revision.
NewCollector_part_001 ==
    [ chargeLevel        |-> NewDesc("sonnenbatterie_charge_level_percent", StateLabels),
      userChargeLevel    |-> NewDesc("sonnenbatterie_user_charge_level_percent", StateLabels),
      consumption        |-> NewDesc("sonnenbatterie_consumption_mw", StateLabels),
      production         |-> NewDesc("sonnenbatterie_production_mw", StateLabels),
      gridFeedIn         |-> NewDesc("sonnenbatterie_grid_feed_in_mw", StateLabels),
      batteryPower       |-> NewDesc("sonnenbatterie_battery_power_mw", StateLabels),
      charging           |-> NewDesc("sonnenbatterie_charging", StateLabels),
      discharging        |-> NewDesc("sonnenbatterie_discharging", StateLabels),
      fullChargeCapacity |-> NewDesc("sonnenbatterie_full_charge_capacity_wh", StateLabels),
      acVoltage          |-> NewDesc("sonnenbatterie_ac_voltage", StateLabels),
      batteryVoltage     |-> NewDesc("sonnenbatterie_battery_voltage", StateLabels),
      acFrequency        |-> NewDesc("sonnenbatterie_ac_frequency", StateLabels),
      info               |-> NewDesc("sonnenbatterie_info", InfoLabels),
      scrapeSuccess      |-> NewDesc("sonnenbatterie_scrape_success", <<"battery_name">>) ]

NewCollector_part_000 ==
    [ chargeLevel        |-> NewDesc("sonnenbatterie_charge_level_percent", StateLabels),
      userChargeLevel    |-> NewDesc("sonnenbatterie_user_charge_level_percent", StateLabels),
      consumption        |-> NewDesc("sonnenbatterie_consumption_mw", StateLabels),
      production         |-> NewDesc("sonnenbatterie_production_mw", StateLabels),
      gridFeedIn         |-> NewDesc("sonnenbatterie_grid_feed_in_mw", StateLabels),
      batteryPower       |-> NewDesc("sonnenbatterie_battery_power_mw", StateLabels),
      charging           |-> NewDesc("sonnenbatterie_charging", StateLabels),
      discharging        |-> NewDesc("sonnenbatterie_discharging", StateLabels),
      fullChargeCapacity |-> NewDesc("sonnenbatterie_full_charge_capacity_wh", StateLabels),
      info               |-> NewDesc("sonnenbatterie_info", InfoLabels),
      scrapeSuccess      |-> NewDesc("sonnenbatterie_scrape_success", <<"battery_name">>) ]

NewCollector_main_go ==
    [ chargeLevel   |-> NewDesc("sonnenbatterie_charge_level_percent", ModelLabels),
      consumption   |-> NewDesc("sonnenbatterie_consumption_mw", ModelLabels),
      production    |-> NewDesc("sonnenbatterie_production_mw", ModelLabels),
      gridFeedIn    |-> NewDesc("sonnenbatterie_grid_feed_in_mw", ModelLabels),
      charging      |-> NewDesc("sonnenbatterie_charging", ModelLabels),
      discharging   |-> NewDesc("sonnenbatterie_discharging", ModelLabels),
      info          |-> NewDesc("sonnenbatterie_info", ModelInfoLabels),
      scrapeSuccess |-> NewDesc("sonnenbatterie_scrape_success", <<"battery_name">>) ]

NewCollector(v) ==
    CASE v = "part_001" -> NewCollector_part_001
      [] v = "part_000" -> NewCollector_part_000
      [] v = "main_go"  -> NewCollector_main_go

\* The fields Describe sends, in program order.
DescribeOrder(v) ==
    CASE v = "part_001" ->
           <<"chargeLevel", "userChargeLevel", "consumption", "production",
             "gridFeedIn", "batteryPower", "charging", "discharging",
             "fullChargeCapacity", "acVoltage", "batteryVoltage", "acFrequency",
             "info", "scrapeSuccess">>
      [] v = "part_000" ->
           <<"chargeLevel", "userChargeLevel", "consumption", "production",
             "gridFeedIn", "batteryPower", "charging", "discharging",
             "fullChargeCapacity", "info", "scrapeSuccess">>
      [] v = "main_go" ->
           <<"chargeLevel", "consumption", "production", "gridFeedIn",
             "charging", "discharging", "info", "scrapeSuccess">>

\* Describe that forgets its last send
describeSends_dropLast(c, v) ==
    [k \in 1..(Len(DescribeOrder(v)) - 1) |-> c[DescribeOrder(v)[k]]]

\* What one call of Describe sends on its channel: `ch <- c.chargeLevel` ...
describeSends(c, v) ==
    [k \in 1..Len(DescribeOrder(v)) |-> c[DescribeOrder(v)[k]]]

\* prometheus.MustNewConstMetric panics unless the number of label values
\* is the number of the descriptor's variable labels.
mustNewConstMetricPanics(c, m) ==
    Len(m.labels) # Len(c[m.desc].variableLabels)

\* An error return that sends nothing
failureMetrics_silent(b) == << >>

\* An error return that builds the metric without its label value
failureMetrics_unlabelled(b) == << Metric("scrapeSuccess", 0, << >>) >>

\* An error return that answers with what the battery's last finished
\* cycle sent (a collector keeping the observations of the scrape before)
failureMetrics_cached(b) ==
    IF prior # << >>
          /\ \E i \in DOMAIN prior[Len(prior)].emitted :
                prior[Len(prior)].emitted[i][1].labels = <<b.Name>>
    THEN prior[Len(prior)].emitted[
             CHOOSE i \in DOMAIN prior[Len(prior)].emitted :
                prior[Len(prior)].emitted[i][1].labels = <<b.Name>>]
    ELSE << Metric("scrapeSuccess", 0, <<b.Name>>) >>

\* The send of both error returns: scrapeSuccess = 0, labelled by name only.
failureMetrics(b) == << Metric("scrapeSuccess", 0, <<b.Name>>) >>

BoolGauge(c) == IF c THEN 1 ELSE 0

\* part_001, after both fetches succeeded: the 14 sends in program order.
successMetrics_part_001(b, latestData, status) ==
    LET labels == <<b.Name, latestData.ICStatus.StateBMS, latestData.ICStatus.StateInverter>>
        infoLabels == <<b.Name, latestData.ICStatus.StateBMS,
                        latestData.ICStatus.StateCoreControlModule,
                        latestData.ICStatus.StateInverter,
                        Itoa(latestData.ICStatus.NrBatteryModules), b.IP>>
    IN << Metric("scrapeSuccess", 1, <<b.Name>>),
          Metric("chargeLevel", latestData.RSOC, labels),
          Metric("userChargeLevel", latestData.USOC, labels),
          Metric("consumption", status.ConsumptionW * MilliPerUnit, labels),
          Metric("production", status.ProductionW * MilliPerUnit, labels),
          Metric("gridFeedIn", status.GridFeedInW * MilliPerUnit, labels),
          Metric("batteryPower", status.PacTotalW * MilliPerUnit, labels),
          Metric("fullChargeCapacity", latestData.FullChargeCapacity, labels),
          Metric("charging", BoolGauge(status.BatteryCharging), labels),
          Metric("discharging", BoolGauge(status.BatteryDischarging), labels),
          Metric("acVoltage", status.Uac, labels),
          Metric("batteryVoltage", status.Ubat, labels),
          Metric("acFrequency", status.Fac, labels),
          Metric("info", 1, infoLabels) >>

\* part_000, after both fetches succeeded: 11 sends, power from latestdata.
successMetrics_part_000(b, latestData, status) ==
    LET labels == <<b.Name, latestData.ICStatus.StateBMS, latestData.ICStatus.StateInverter>>
        infoLabels == <<b.Name, latestData.ICStatus.StateBMS,
                        latestData.ICStatus.StateCoreControlModule,
                        latestData.ICStatus.StateInverter,
                        Itoa(latestData.ICStatus.NrBatteryModules), b.IP>>
    IN << Metric("scrapeSuccess", 1, <<b.Name>>),
          Metric("chargeLevel", latestData.RSOC, labels),
          Metric("userChargeLevel", latestData.USOC, labels),
          Metric("consumption", latestData.ConsumptionW * MilliPerUnit, labels),
          Metric("production", latestData.ProductionW * MilliPerUnit, labels),
          Metric("gridFeedIn", latestData.GridFeedInW * MilliPerUnit, labels),
          Metric("batteryPower", latestData.PacTotalW * MilliPerUnit, labels),
          Metric("fullChargeCapacity", latestData.FullChargeCapacity, labels),
          Metric("charging", BoolGauge(status.BatteryCharging), labels),
          Metric("discharging", BoolGauge(status.BatteryDischarging), labels),
          Metric("info", 1, infoLabels) >>

\* main.go sending zeros for what it could not fetch
successMetrics_main_go_zeros(b, system, consumption, status, statusOk) ==
    LET labels == <<b.Name, system.Model, system.MAC>>
    IN << Metric("scrapeSuccess", 1, <<b.Name>>),
          Metric("consumption", consumption.CurrentMW, labels),
          Metric("chargeLevel", IF statusOk THEN status.ChargeLevel ELSE 0, labels),
          Metric("production", IF statusOk THEN status.ProductionMW ELSE 0, labels),
          Metric("gridFeedIn", IF statusOk THEN status.GridFeedInMW ELSE 0, labels),
          Metric("charging", BoolGauge(statusOk /\ status.ChargeMode = "charging"), labels),
          Metric("discharging", BoolGauge(statusOk /\ status.ChargeMode = "discharging"), labels),
          Metric("info", 1, <<b.Name, system.Model, system.MAC, system.SoftwareVersion,
                              system.HardwareVersion, system.LED, system.IP, system.WanIP>>) >>

\* main.go with the status fetch as mandatory as in collector.go
successMetrics_main_go_strict(b, system, consumption, status, statusOk) ==
    IF statusOk
    THEN << Metric("scrapeSuccess", 1, <<b.Name>>),
            Metric("consumption", consumption.CurrentMW, <<b.Name, system.Model, system.MAC>>) >>
    ELSE << Metric("scrapeSuccess", 0, <<b.Name>>) >>

\* main.go taking every mode but "charging" for discharging
successMetrics_main_go_twoState(b, system, consumption, status, statusOk) ==
    LET labels == <<b.Name, system.Model, system.MAC>>
    IN << Metric("scrapeSuccess", 1, <<b.Name>>),
          Metric("consumption", consumption.CurrentMW, labels) >>
       \o (IF statusOk
           THEN << Metric("chargeLevel", status.ChargeLevel, labels),
                   Metric("production", status.ProductionMW, labels),
                   Metric("gridFeedIn", status.GridFeedInMW, labels),
                   Metric("charging", BoolGauge(status.ChargeMode = "charging"), labels),
                   Metric("discharging", BoolGauge(status.ChargeMode # "charging"), labels) >>
           ELSE << >>)
       \o << Metric("info", 1, <<b.Name, system.Model, system.MAC, system.SoftwareVersion,
                                  system.HardwareVersion, system.LED, system.IP,
                                  system.WanIP>>) >>

\* main.go, after system and consumption were fetched; statusOk is
\* `status != nil`.
successMetrics_main_go(b, system, consumption, status, statusOk) ==
    LET labels == <<b.Name, system.Model, system.MAC>>
        infoLabels == <<b.Name, system.Model, system.MAC, system.SoftwareVersion,
                        system.HardwareVersion, system.LED, system.IP, system.WanIP>>
    IN << Metric("scrapeSuccess", 1, <<b.Name>>),
          Metric("consumption", consumption.CurrentMW, labels) >>
       \o (IF statusOk
           THEN << Metric("chargeLevel", status.ChargeLevel, labels),
                   Metric("production", status.ProductionMW, labels),
                   Metric("gridFeedIn", status.GridFeedInMW, labels),
                   Metric("charging", BoolGauge(status.ChargeMode = "charging"), labels),
                   Metric("discharging", BoolGauge(status.ChargeMode = "discharging"), labels) >>
           ELSE << >>)
       \o << Metric("info", 1, infoLabels) >>

\* The status error branch without its `return`: 0 is sent and the success
\* path goes on
statusErrorMetrics_noReturn(b, latestData) ==
    << Metric("scrapeSuccess", 0, <<b.Name>>), Metric("scrapeSuccess", 1, <<b.Name>>) >>

\* The status error handled as main.go does: success, with the metrics that
\* need no status
statusErrorMetrics_degraded(b, latestData) ==
    << Metric("scrapeSuccess", 1, <<b.Name>>),
       Metric("chargeLevel", latestData.RSOC,
              <<b.Name, latestData.ICStatus.StateBMS, latestData.ICStatus.StateInverter>>) >>

\* What collectBattery does when the status fetch returned an error after
\* latestdata was fetched (part_000, part_001): scrapeSuccess = 0, return.
statusErrorMetrics(b, latestData) == failureMetrics(b)

\* The info labels built with core_control_state and inverter_state
\* exchanged
successMetrics_infoSwapped(v, b, latestData, status) ==
    LET ms == IF v = "part_001" THEN successMetrics_part_001(b, latestData, status)
              ELSE successMetrics_part_000(b, latestData, status)
        L  == ms[Len(ms)].labels
    IN [ms EXCEPT ![Len(ms)].labels = <<L[1], L[2], L[4], L[3], L[5], L[6]>>]

\* The watt values sent as they come, without the conversion to milliwatts
successMetrics_unscaled(v, b, latestData, status) ==
    LET ms == IF v = "part_001" THEN successMetrics_part_001(b, latestData, status)
              ELSE successMetrics_part_000(b, latestData, status)
    IN [k \in 1..Len(ms) |->
          IF ms[k].desc \in {"consumption", "production", "gridFeedIn", "batteryPower"}
          THEN [ms[k] EXCEPT !.value = @ \div MilliPerUnit]
          ELSE ms[k]]

\* The current collector still taking every value as part_000 does
successMetrics_fromLatest(v, b, latestData, status) ==
    successMetrics_part_000(b, latestData, status)

\* The success path without its last send (info)
successMetrics_noInfo(v, b, latestData, status) ==
    LET ms == IF v = "part_001" THEN successMetrics_part_001(b, latestData, status)
              ELSE successMetrics_part_000(b, latestData, status)
    IN SubSeq(ms, 1, Len(ms) - 1)

\* The success path sending scrapeSuccess = 1 after the other metrics
successMetrics_healthLast(v, b, latestData, status) ==
    LET ms == IF v = "part_001" THEN successMetrics_part_001(b, latestData, status)
              ELSE successMetrics_part_000(b, latestData, status)
    IN Tail(ms) \o << Head(ms) >>

successMetrics(v, b, latestData, status) ==
    IF v = "part_001" THEN successMetrics_part_001(b, latestData, status)
    ELSE successMetrics_part_000(b, latestData, status)

\* collectBattery run to its end on its own: the sends it does, in order,
\* when the network answers r.system, r.consumption, r.latestdata, r.status.
collectBattery(v, b, r, dev) ==
    IF v = "main_go"
    THEN IF fetchJSON(r.system) # "nil" THEN failureMetrics(b)
         ELSE IF fetchJSON(r.consumption) # "nil" THEN failureMetrics(b)
         ELSE successMetrics_main_go(b, dev.system, dev.consumption, dev.apistatus,
                                     fetchJSON(r.status) = "nil")
    ELSE IF fetchJSON(r.latestdata) # "nil" THEN failureMetrics(b)
         ELSE IF fetchJSON(r.status) # "nil" THEN statusErrorMetrics(b, dev.latestdata)
         ELSE successMetrics(v, b, dev.latestdata, dev.status)

(* ---------------------------- sync.WaitGroup -------------------------- *)
wgAdd(n)  == n + 1
\* wg.Done() that leaves the counter as it is
wgDone_skipped(n) == n

wgDone(n) == n - 1
\* Collect without its barrier
wgWait_noBarrier(n) == TRUE

\* wg.Wait() returns when the counter is zero
wgWait(n) == n = 0

\* The goroutine reads the loop variable after the loop has run on: every
\* goroutine works on the last battery
goArg_loopVar(bs, k) == bs[Len(bs)]

\* The argument the goroutine of iteration k is started with: `}(battery)`
goArg(bs, k) == bs[k]

(* --------------------------- configuration ----------------------------- *)
\* The value of an environment variable is a sequence of atoms: the comma
\* ",", the blank " " and words without commas and blanks.  << >> is the
\* empty string, which os.Getenv also returns for an unset variable.

\* strings.Split(s, ","): the fields between the commas; one empty field
\* for the empty string.
RECURSIVE Split(_)
Split(s) ==
    IF \A k \in 1..Len(s) : s[k] # ","
    THEN << s >>
    ELSE LET k == CHOOSE n \in 1..Len(s) :
                     s[n] = "," /\ \A j \in 1..(n - 1) : s[j] # ","
         IN << SubSeq(s, 1, k - 1) >> \o Split(SubSeq(s, k + 1, Len(s)))

RECURSIVE TrimLeft(_)
TrimLeft(s) == IF s # << >> /\ Head(s) = " " THEN TrimLeft(Tail(s)) ELSE s

RECURSIVE TrimRight(_)
TrimRight(s) ==
    IF s # << >> /\ s[Len(s)] = " " THEN TrimRight(SubSeq(s, 1, Len(s) - 1)) ELSE s

\* strings.TrimSpace
TrimSpace(s) == TrimRight(TrimLeft(s))

\* The Go string of a sequence of atoms.
RECURSIVE Join(_)
Join(s) == IF s = << >> THEN "" ELSE Head(s) \o Join(Tail(s))

\* The default names counted from 1
nameAt_oneBased(names, i) ==
    IF i < Len(names) /\ TrimSpace(names[i + 1]) # << >>
    THEN Join(TrimSpace(names[i + 1]))
    ELSE "battery" \o Itoa(i + 1)

\* name := "battery" + strconv.Itoa(i), replaced by the trimmed names[i]
\* when there is one and it is not blank; i counts from 0.
nameAt(names, i) ==
    IF i < Len(names) /\ TrimSpace(names[i + 1]) # << >>
    THEN Join(TrimSpace(names[i + 1]))
    ELSE "battery" \o Itoa(i)

\* The loop of parseBatteries (config.go) from index i on.
RECURSIVE appendBatteries(_, _, _, _)
appendBatteries(ipList, tokenList, names, i) ==
    IF i >= Len(ipList) THEN << >>
    ELSE LET ip    == TrimSpace(ipList[i + 1])
             token == TrimSpace(tokenList[i + 1])
             rest  == appendBatteries(ipList, tokenList, names, i + 1)
         IN IF ip = << >> \/ token = << >> THEN rest
            ELSE << [Name |-> nameAt(names, i), IP |-> Join(ip),
                     AuthToken |-> Join(token)] >> \o rest

\* The loop of parseBatteries (main.go) from index i on.  A word of the URL
\* list is the host of the URL; the Battery's IP field holds it.
RECURSIVE appendURLBatteries(_, _, _)
appendURLBatteries(urls, names, i) ==
    IF i >= Len(urls) THEN << >>
    ELSE LET url  == TrimSpace(urls[i + 1])
             rest == appendURLBatteries(urls, names, i + 1)
         IN IF url = << >> THEN rest
            ELSE << [Name |-> nameAt(names, i), IP |-> Join(url), AuthToken |-> ""] >>
                 \o rest

\* parseBatteries returning the list it built even when it is empty
parseResult_allowEmpty(bs, msg) == [batteries |-> bs, err |-> ""]

\* if len(batteries) == 0 { return nil, fmt.Errorf(msg) }; return batteries, nil
parseResult(bs, msg) ==
    IF Len(bs) = 0 THEN [batteries |-> << >>, err |-> msg]
    ELSE [batteries |-> bs, err |-> ""]

\* parseBatteries of config.go pairing as many entries as both lists have
\* instead of comparing their lengths
parseBatteries_part_006_truncating(e) ==
    IF e.ips = << >>
    THEN [batteries |-> << >>, err |-> "SONNENBATTERIE_IPS must be set"]
    ELSE IF e.tokens = << >>
    THEN [batteries |-> << >>, err |-> "SONNENBATTERIE_TOKENS must be set"]
    ELSE LET n == IF Len(Split(e.ips)) < Len(Split(e.tokens))
                  THEN Len(Split(e.ips)) ELSE Len(Split(e.tokens))
         IN parseResult(appendBatteries(SubSeq(Split(e.ips), 1, n),
                                        SubSeq(Split(e.tokens), 1, n),
                                        Split(e.names), 0),
                        "no valid batteries configured")

\* parseBatteries of config.go (part_006)
parseBatteries_part_006(e) ==
    IF e.ips = << >>
    THEN [batteries |-> << >>, err |-> "SONNENBATTERIE_IPS must be set"]
    ELSE IF e.tokens = << >>
    THEN [batteries |-> << >>, err |-> "SONNENBATTERIE_TOKENS must be set"]
    ELSE LET ipList    == Split(e.ips)
             tokenList == Split(e.tokens)
             names     == Split(e.names)
         IN IF Len(ipList) # Len(tokenList)
            THEN [batteries |-> << >>,
                  err |-> "number of IPs (" \o Itoa(Len(ipList))
                          \o ") must match number of tokens ("
                          \o Itoa(Len(tokenList)) \o ")"]
            ELSE parseResult(appendBatteries(ipList, tokenList, names, 0),
                             "no valid batteries configured")

\* parseBatteries of main.go
parseBatteries_main_go(e) ==
    LET apiURLs == IF e.urls = << >> THEN e.url ELSE e.urls
    IN IF apiURLs = << >>
       THEN [batteries |-> << >>,
             err |-> "SONNENBATTERIE_API_URLS or SONNENBATTERIE_API_URL must be set"]
       ELSE parseResult(appendURLBatteries(Split(apiURLs), Split(e.names), 0),
                        "no valid battery URLs configured")

parseBatteries(v, e) ==
    IF v = "main_go" THEN parseBatteries_main_go(e) ELSE parseBatteries_part_006(e)

(* ------------------------------ state ---------------------------------- *)
NoBattery == [Name |-> "", IP |-> "", AuthToken |-> ""]

\* No environment: the collector was built from a battery list directly.
NoEnv == [ips |-> << >>, tokens |-> << >>, names |-> << >>, urls |-> << >>,
          url |-> << >>, port |-> << >>]

\* No collector: NewCollector has not been called.
NoCollector == << >>

Tasks == 1..Len(batteries)

IPs == {BatteryAt(k).IP : k \in 1..(MaxBatteries + 1)}

Configs == { [k \in 1..n |-> BatteryAt(k)] : n \in 0..MaxBatteries }

DeviceOfIP(ip) == DeviceAt(CHOOSE k \in 1..(MaxBatteries + 1) : BatteryAt(k).IP = ip)

Init ==
    /\ variant \in Variants
    /\ batteries \in Configs
    /\ device = [ip \in IPs |-> DeviceOfIP(ip)]
    /\ net = NetFor(batteries)
    /\ collectPc = "idle"
    /\ loopIdx = 1
    /\ wg = 0
    /\ taskPc = [i \in 1..Len(batteries) |-> "idle"]
    /\ arg = [i \in 1..Len(batteries) |-> NoBattery]
    /\ resp = [i \in 1..Len(batteries) |-> NoResps]
    /\ pending = [i \in 1..Len(batteries) |-> << >>]
    /\ ch = << >>
    /\ closed = FALSE
    /\ received = << >>
    /\ emitted = [i \in 1..Len(batteries) |-> << >>]
    /\ requests = << >>
    /\ panicked = FALSE
    /\ env = NoEnv
    /\ mainPc = "serving"
    /\ descs = NewCollector(variant)
    /\ described = << >>
    /\ logs = {}
    /\ prior = << >>
    /\ target = [i \in 1..Len(batteries) |-> ZeroDocs]

(* ------------------------------ channel ------------------------------- *)
BagAdd(bag, x) ==
    IF x \in DOMAIN bag THEN [bag EXCEPT ![x] = @ + 1] ELSE bag @@ (x :> 1)

\* A bag with n more of x.
BagAddN(bag, x, n) ==
    IF x \in DOMAIN bag THEN [bag EXCEPT ![x] = @ + n] ELSE bag @@ (x :> n)

\* fetchJSON trying a second time when the transport failed
doCount_retrying(r) == IF r.net # "response" THEN 2 ELSE 1

\* How often one call of fetchJSON sends its request: client.Do(req)
\* (main.go: client.Get(url)) is called once, outside any loop, whatever
\* comes back.
doCount(r) == 1

\* The request sent without req.Header.Set
Request_noHeader(v, b, path) == [host |-> b.IP, path |-> path, token |-> ""]

\* The request fetchJSON builds: GET url with the Auth-Token header
\* (main.go: client.Get(url), no header).
Request(v, b, path) ==
    [host |-> b.IP, path |-> path, token |-> IF v = "main_go" THEN "" ELSE b.AuthToken]

\* Where collectBattery goes once its sends are decided: to the first send,
\* or to its return when there is none.
AfterBuild(sends) == IF sends = << >> THEN "exit" ELSE "send"

FirstFetch(v) == IF v = "main_go" THEN "fetchSystem" ELSE "fetchLatestData"

(* ------------------------------ Collect ------------------------------- *)
\* The caller invokes Collect: `var wg sync.WaitGroup`
Collect ==
    /\ ~panicked
    /\ mainPc = "serving"
    /\ collectPc = "idle"
    /\ collectPc' = "loop"
    /\ wg' = 0
    /\ loopIdx' = 1
    /\ UNCHANGED <<prior, env, mainPc, descs, described, logs, target, variant, batteries, device, net, taskPc, arg, resp, pending, ch,
                   closed, received, emitted, requests, panicked>>

\* One iteration of the range loop: wg.Add(1); go func(b Battery){...}(battery)
CollectSpawn ==
    /\ ~panicked
    /\ collectPc = "loop"
    /\ loopIdx <= Len(batteries)
    /\ wg' = wgAdd(wg)
    /\ arg' = [arg EXCEPT ![loopIdx] = goArg(batteries, loopIdx)]
    /\ taskPc' = [taskPc EXCEPT ![loopIdx] = FirstFetch(variant)]
    /\ loopIdx' = loopIdx + 1
    /\ UNCHANGED <<prior, env, mainPc, descs, described, logs, target, variant, batteries, device, net, collectPc, resp, pending, ch,
                   closed, received, emitted, requests, panicked>>

\* The loop is over and wg.Wait() returns: Collect returns.
CollectWait ==
    /\ ~panicked
    /\ collectPc = "loop"
    /\ loopIdx > Len(batteries)
    /\ wgWait(wg)
    /\ collectPc' = "returned"
    /\ UNCHANGED <<prior, env, mainPc, descs, described, logs, target, variant, batteries, device, net, loopIdx, wg, taskPc, arg, resp,
                   pending, ch, closed, received, emitted, requests, panicked>>

(* --------------------- collectBattery (part_000/1) --------------------- *)
\* latestData, err := fetchLatestData(battery); if err != nil { send 0; return }
CB_fetchLatestData(i) ==
    /\ ~panicked
    /\ taskPc[i] = "fetchLatestData"
    /\ \E r \in net :
         /\ requests' = BagAddN(requests, Request(variant, arg[i], "/api/v2/latestdata"), doCount(r))
         /\ logs' = logs \cup logLines(variant, arg[i], "/api/v2/latestdata", r)
         /\ resp' = [resp EXCEPT ![i].latestdata = r]
         /\ target' = [target EXCEPT ![i].latestdata =
                fetchJSONTarget(r, device[arg[i].IP].latestdata, ZeroDocs.latestdata)]
         /\ IF fetchJSON(r) # "nil"
            THEN /\ pending' = [pending EXCEPT ![i] = failureMetrics(arg[i])]
                 /\ taskPc' = [taskPc EXCEPT ![i] = AfterBuild(failureMetrics(arg[i]))]
            ELSE /\ pending' = pending
                 /\ taskPc' = [taskPc EXCEPT ![i] = "fetchStatus"]
    /\ UNCHANGED <<prior, env, mainPc, descs, described, variant, batteries, device, net, collectPc, loopIdx, wg, arg, ch,
                   closed, received, emitted, panicked>>

\* status, err := fetchStatus(battery); if err != nil { send 0; return };
\* otherwise the metrics are built from latestData and status.
CB_fetchStatus(i) ==
    /\ ~panicked
    /\ variant # "main_go"
    /\ taskPc[i] = "fetchStatus"
    /\ \E r \in net :
         /\ requests' = BagAddN(requests, Request(variant, arg[i], "/api/v2/status"), doCount(r))
         /\ logs' = logs \cup logLines(variant, arg[i], "/api/v2/status", r)
         /\ resp' = [resp EXCEPT ![i].status = r]
         /\ target' = [target EXCEPT ![i].status =
                fetchJSONTarget(r, device[arg[i].IP].status, ZeroDocs.status)]
         /\ pending' = [pending EXCEPT ![i] =
                IF fetchJSON(r) # "nil"
                THEN statusErrorMetrics(arg[i], target[i].latestdata)
                ELSE successMetrics(variant, arg[i], target[i].latestdata,
                                    target'[i].status)]
    /\ taskPc' = [taskPc EXCEPT ![i] = AfterBuild(pending'[i])]
    /\ UNCHANGED <<prior, env, mainPc, descs, described, variant, batteries, device, net, collectPc, loopIdx, wg, arg, ch,
                   closed, received, emitted, panicked>>

(* ------------------------ collectBattery (main.go) --------------------- *)
\* system, err := fetchSystem(battery.APIURL); if err != nil { send 0; return }
CBmain_fetchSystem(i) ==
    /\ ~panicked
    /\ taskPc[i] = "fetchSystem"
    /\ \E r \in net :
         /\ requests' = BagAddN(requests, Request(variant, arg[i], "/api/system"), doCount(r))
         /\ logs' = logs \cup logLines(variant, arg[i], "/api/system", r)
         /\ resp' = [resp EXCEPT ![i].system = r]
         /\ target' = [target EXCEPT ![i].system =
                fetchJSONTarget(r, device[arg[i].IP].system, ZeroDocs.system)]
         /\ IF fetchJSON(r) # "nil"
            THEN /\ pending' = [pending EXCEPT ![i] = failureMetrics(arg[i])]
                 /\ taskPc' = [taskPc EXCEPT ![i] = AfterBuild(failureMetrics(arg[i]))]
            ELSE /\ pending' = pending
                 /\ taskPc' = [taskPc EXCEPT ![i] = "fetchConsumption"]
    /\ UNCHANGED <<prior, env, mainPc, descs, described, variant, batteries, device, net, collectPc, loopIdx, wg, arg, ch,
                   closed, received, emitted, panicked>>

\* consumption, err := fetchConsumption(...); if err != nil { send 0; return }
CBmain_fetchConsumption(i) ==
    /\ ~panicked
    /\ taskPc[i] = "fetchConsumption"
    /\ \E r \in net :
         /\ requests' = BagAddN(requests, Request(variant, arg[i], "/api/consumption"), doCount(r))
         /\ logs' = logs \cup logLines(variant, arg[i], "/api/consumption", r)
         /\ resp' = [resp EXCEPT ![i].consumption = r]
         /\ target' = [target EXCEPT ![i].consumption =
                fetchJSONTarget(r, device[arg[i].IP].consumption, ZeroDocs.consumption)]
         /\ IF fetchJSON(r) # "nil"
            THEN /\ pending' = [pending EXCEPT ![i] = failureMetrics(arg[i])]
                 /\ taskPc' = [taskPc EXCEPT ![i] = AfterBuild(failureMetrics(arg[i]))]
            ELSE /\ pending' = pending
                 /\ taskPc' = [taskPc EXCEPT ![i] = "fetchStatus"]
    /\ UNCHANGED <<prior, env, mainPc, descs, described, variant, batteries, device, net, collectPc, loopIdx, wg, arg, ch,
                   closed, received, emitted, panicked>>

\* status, err := fetchStatus(...); if err != nil { status = nil }; the
\* metrics are built from system, consumption and, when there, status.
\* The second log line of a failed status fetch is written between the
\* sends; its place among them is not kept.
CBmain_fetchStatus(i) ==
    /\ ~panicked
    /\ variant = "main_go"
    /\ taskPc[i] = "fetchStatus"
    /\ \E r \in net :
         /\ requests' = BagAddN(requests, Request(variant, arg[i], "/api/status"), doCount(r))
         /\ logs' = logs \cup logLines(variant, arg[i], "/api/status", r)
         /\ resp' = [resp EXCEPT ![i].status = r]
         /\ target' = [target EXCEPT ![i].apistatus =
                fetchJSONTarget(r, device[arg[i].IP].apistatus, ZeroDocs.apistatus)]
         /\ pending' = [pending EXCEPT ![i] =
                successMetrics_main_go(arg[i], target[i].system,
                                       target[i].consumption,
                                       target'[i].apistatus,
                                       fetchJSON(r) = "nil")]
    /\ taskPc' = [taskPc EXCEPT ![i] = AfterBuild(pending'[i])]
    /\ UNCHANGED <<prior, env, mainPc, descs, described, variant, batteries, device, net, collectPc, loopIdx, wg, arg, ch,
                   closed, received, emitted, panicked>>

(* --------------------------- sends and exit ---------------------------- *)
\* `ch <- prometheus.MustNewConstMetric(desc, GaugeValue, v, labels...)`: the
\* constructor panics on a wrong number of label values; the send blocks
\* while the buffer is full and panics on a closed channel.  After the last
\* send the function returns.
CB_send(i) ==
    /\ ~panicked
    /\ taskPc[i] = "send"
    /\ IF closed \/ mustNewConstMetricPanics(descs, Head(pending[i]))
       THEN /\ panicked' = TRUE
            /\ UNCHANGED <<ch, emitted, pending, taskPc>>
       ELSE /\ Len(ch) < ChanCap
            /\ ch' = Append(ch, [src |-> i, m |-> Head(pending[i])])
            /\ emitted' = [emitted EXCEPT ![i] = Append(@, Head(pending[i]))]
            /\ pending' = [pending EXCEPT ![i] = Tail(@)]
            /\ taskPc' = [taskPc EXCEPT ![i] =
                             IF Len(pending[i]) = 1 THEN "exit" ELSE "send"]
            /\ panicked' = panicked
    /\ UNCHANGED <<prior, env, mainPc, descs, described, logs, target, variant, batteries, device, net, collectPc, loopIdx, wg, arg, resp,
                   closed, received, requests>>

\* `defer wg.Done()` of the goroutine
CB_done(i) ==
    /\ ~panicked
    /\ taskPc[i] = "exit"
    /\ wg' = wgDone(wg)
    /\ taskPc' = [taskPc EXCEPT ![i] = "finished"]
    /\ UNCHANGED <<prior, env, mainPc, descs, described, logs, target, variant, batteries, device, net, collectPc, loopIdx, arg, resp,
                   pending, ch, closed, received, emitted, requests, panicked>>

(* ------------------------------ the caller ----------------------------- *)
\* The caller receives one metric from the channel.
Drain ==
    /\ ~panicked
    /\ ch # << >>
    /\ received' = BagAdd(received, Head(ch))
    /\ ch' = Tail(ch)
    /\ UNCHANGED <<prior, env, mainPc, descs, described, logs, target, variant, batteries, device, net, collectPc, loopIdx, wg, taskPc,
                   arg, resp, pending, closed, emitted, requests, panicked>>

\* The caller closes the channel once Collect has returned.
Close ==
    /\ ~panicked
    /\ collectPc = "returned"
    /\ ~closed
    /\ closed' = TRUE
    /\ UNCHANGED <<prior, env, mainPc, descs, described, logs, target, variant, batteries, device, net, collectPc, loopIdx, wg, taskPc,
                   arg, resp, pending, ch, received, emitted, requests, panicked>>

Next ==
    \/ Collect
    \/ CollectSpawn
    \/ CollectWait
    \/ \E i \in Tasks : CB_fetchLatestData(i)
    \/ \E i \in Tasks : CB_fetchStatus(i)
    \/ \E i \in Tasks : CBmain_fetchSystem(i)
    \/ \E i \in Tasks : CBmain_fetchConsumption(i)
    \/ \E i \in Tasks : CBmain_fetchStatus(i)
    \/ \E i \in Tasks : CB_send(i)
    \/ \E i \in Tasks : CB_done(i)
    \/ Drain
    \/ Close

Spec == Init /\ [][Next]_vars

(* ------------------------------ Describe ------------------------------- *)
\* One call of Describe: it sends the descriptor fields of the Collector.
\* The registry calls it at registration and may call it at any time,
\* also while a Collect is running.
Describe ==
    /\ ~panicked
    /\ Len(described) < MaxDescribeCalls
    /\ described' = Append(described, describeSends(descs, variant))
    /\ UNCHANGED <<prior, env, mainPc, descs, logs, target, variant, batteries, device, net,
                   collectPc, loopIdx, wg, taskPc, arg, resp, pending, ch, closed,
                   received, emitted, requests, panicked>>

(* --------------------- one battery, any documents ---------------------- *)
\* The watt values a document is given: negative, zero, positive.
WattSamples == {0 - 3, 0, 4}

\* sonnenBatterie-api's charge_mode for the flags c, d of the v2 API.
ChargeModeOf(c, d) ==
    IF c /\ d THEN "Charging"
    ELSE IF c THEN "charging"
    ELSE IF d THEN "discharging"
    ELSE "idle"

\* The documents a device may serve: both flags free, the watt fields of
\* the status document negative, zero or positive, those of latestdata
\* different from them (and negative, zero or positive too).
UpstreamDocs ==
    { [DeviceAt(1) EXCEPT
         !.status.BatteryCharging = c, !.status.BatteryDischarging = d,
         !.status.ConsumptionW = w, !.status.ProductionW = 2 * w,
         !.status.GridFeedInW = 0 - 3 * w, !.status.PacTotalW = 0 - w,
         !.latestdata.ConsumptionW = w * w - 9,
         !.latestdata.ProductionW = 2 * (w * w - 9),
         !.latestdata.GridFeedInW = 0 - 3 * (w * w - 9),
         !.latestdata.PacTotalW = 0 - (w * w - 9),
         !.apistatus.ChargeMode = ChargeModeOf(c, d),
         !.apistatus.GridFeedInMW = 0 - 3000 * w,
         !.apistatus.ProductionMW = 2000 * w,
         !.consumption.CurrentMW = 1000 * w]
      : c \in BOOLEAN, d \in BOOLEAN, w \in WattSamples }

\* Every kind of answer, among them status codes around the 2xx range.
UpstreamOutcomes ==
    Outcomes \cup {Http(201, TRUE), Http(204, FALSE), Http(302, TRUE), Http(404, FALSE)}

\* A collector of no or one battery whose device serves any of the
\* documents, Describe being called along the way.
InitUpstream ==
    /\ variant \in Variants
    /\ batteries \in {cfg \in Configs : Len(cfg) <= 1}
    /\ device \in { [ip \in IPs |-> IF ip = BatteryAt(1).IP THEN doc ELSE DeviceOfIP(ip)]
                    : doc \in UpstreamDocs }
    /\ net = UpstreamOutcomes
    /\ collectPc = "idle"
    /\ loopIdx = 1
    /\ wg = 0
    /\ taskPc = [i \in 1..Len(batteries) |-> "idle"]
    /\ arg = [i \in 1..Len(batteries) |-> NoBattery]
    /\ resp = [i \in 1..Len(batteries) |-> NoResps]
    /\ pending = [i \in 1..Len(batteries) |-> << >>]
    /\ ch = << >>
    /\ closed = FALSE
    /\ received = << >>
    /\ emitted = [i \in 1..Len(batteries) |-> << >>]
    /\ requests = << >>
    /\ panicked = FALSE
    /\ env = NoEnv
    /\ mainPc = "serving"
    /\ descs = NewCollector(variant)
    /\ described = << >>
    /\ logs = {}
    /\ prior = << >>
    /\ target = [i \in 1..Len(batteries) |-> ZeroDocs]

NextUpstream ==
    \/ Next
    \/ Describe

SpecUpstream == InitUpstream /\ [][NextUpstream]_vars

(* -------------------------------- main --------------------------------- *)
defaultPort == "9090"

\* port := os.Getenv("EXPORTER_PORT"); if port == "" { port = defaultPort }
getPort(e) == IF e.port = << >> THEN defaultPort ELSE Join(e.port)

\* main up to the point where it serves: the port, parseBatteries,
\* log.Fatalf on its error (the process exits), otherwise the start-up log
\* lines, NewCollector and prometheus.MustRegister, which calls Describe.
Main ==
    /\ mainPc = "start"
    /\ LET res == parseBatteries(variant, env)
           n   == Len(res.batteries)
       IN IF res.err # ""
          THEN /\ mainPc' = "fatal"
               /\ logs' = logs \cup {"Configuration error: " \o res.err}
               /\ UNCHANGED <<batteries, descs, described, taskPc, arg, resp,
                              pending, emitted, target>>
          ELSE /\ mainPc' = "serving"
               /\ logs' = logs
                    \cup {"Starting SonnenBatterie Prometheus Exporter on port "
                            \o getPort(env),
                          "Monitoring " \o Itoa(n) \o " battery/batteries:"}
                    \cup {"  - " \o res.batteries[k].Name \o ": " \o res.batteries[k].IP
                          : k \in 1..n}
               /\ batteries' = res.batteries
               /\ descs' = NewCollector(variant)
               /\ described' = Append(described,
                                      describeSends(NewCollector(variant), variant))
               /\ taskPc' = [i \in 1..n |-> "idle"]
               /\ arg' = [i \in 1..n |-> NoBattery]
               /\ resp' = [i \in 1..n |-> NoResps]
               /\ pending' = [i \in 1..n |-> << >>]
               /\ emitted' = [i \in 1..n |-> << >>]
               /\ target' = [i \in 1..n |-> ZeroDocs]
    /\ UNCHANGED <<prior, env, variant, device, net, collectPc, loopIdx, wg, ch, closed,
                   received, requests, panicked>>

\* Values of SONNENBATTERIE_IPS (and of the URL variables of main.go),
\* SONNENBATTERIE_TOKENS and SONNENBATTERIE_NAMES.
IpSamples ==
    { << >>, <<" ">>, <<" ", ",", " ">>,
      <<BatteryAt(1).IP>>, <<" ", BatteryAt(1).IP, " ">>,
      <<BatteryAt(1).IP, ",", BatteryAt(2).IP>>,
      <<",", BatteryAt(2).IP>>,
      <<BatteryAt(1).IP, ",", " ", BatteryAt(2).IP>> }

TokenSamples ==
    { << >>, <<" ">>, <<",">>,
      <<BatteryAt(1).AuthToken>>,
      <<BatteryAt(1).AuthToken, ",", BatteryAt(2).AuthToken>>,
      <<",", BatteryAt(2).AuthToken>>,
      <<BatteryAt(1).AuthToken, ",", " ">> }

NameSamples ==
    { << >>, <<"house">>, <<"house", ",", "house">>, <<"battery1">>,
      <<" ", ",", " ", "garage", " ">> }

PortSamples == { << >>, <<"8080">> }

Envs(v) ==
    IF v = "main_go"
    THEN { [NoEnv EXCEPT !.urls = u, !.url = u1, !.names = n, !.port = p]
           : u \in IpSamples, u1 \in {<< >>, <<BatteryAt(2).IP>>},
             n \in NameSamples, p \in PortSamples }
    ELSE { [NoEnv EXCEPT !.ips = a, !.tokens = t, !.names = n, !.port = p]
           : a \in IpSamples, t \in TokenSamples,
             n \in NameSamples, p \in PortSamples }

\* The process before main has run: an environment, no collector yet.
InitMain ==
    /\ variant \in Variants
    /\ env \in Envs(variant)
    /\ mainPc = "start"
    /\ batteries = << >>
    /\ descs = NoCollector
    /\ device = [ip \in IPs |-> DeviceOfIP(ip)]
    /\ net = CrowdOutcomes
    /\ collectPc = "idle"
    /\ loopIdx = 1
    /\ wg = 0
    /\ taskPc = << >>
    /\ arg = << >>
    /\ resp = << >>
    /\ pending = << >>
    /\ ch = << >>
    /\ closed = FALSE
    /\ received = << >>
    /\ emitted = << >>
    /\ requests = << >>
    /\ panicked = FALSE
    /\ described = << >>
    /\ logs = {}
    /\ prior = << >>
    /\ target = << >>

NextMain ==
    \/ Main
    \/ Next

SpecMain == InitMain /\ [][NextMain]_vars

(* --------------------------- scrape after scrape ------------------------ *)
\* The answers of a run of several scrapes: a timeout, a 500, a good answer.
CycleOutcomes == {TimedOut, Http(500, TRUE), Http(200, TRUE)}

\* The documents the devices serve at first, and those they serve later
\* (every field has changed).
DeviceEpochs ==
    { [ip \in IPs |-> DeviceOfIP(ip)],
      [ip \in IPs |->
          DeviceAt(MaxBatteries + 1
                     + CHOOSE k \in 1..(MaxBatteries + 1) : BatteryAt(k).IP = ip)] }

\* The next scrape begins: the HTTP handler's gatherer has received what the
\* returned Collect sent on the channel it closed, and the next request for
\* /metrics makes it call Collect with a channel of its own.  The
\* goroutines of the call before are gone with their locals; the Collector
\* is the same object.  The devices may serve other documents by now.
NextScrape ==
    /\ ~panicked
    /\ collectPc = "returned"
    /\ closed
    /\ ch = << >>
    /\ Len(prior) < MaxCycles - 1
    /\ prior' = Append(prior, [resp |-> resp, emitted |-> emitted, device |-> device])
    /\ device' \in DeviceEpochs
    /\ collectPc' = "idle"
    /\ loopIdx' = 1
    /\ wg' = 0
    /\ closed' = FALSE
    /\ received' = << >>
    /\ requests' = << >>
    /\ taskPc' = [i \in 1..Len(batteries) |-> "idle"]
    /\ arg' = [i \in 1..Len(batteries) |-> NoBattery]
    /\ resp' = [i \in 1..Len(batteries) |-> NoResps]
    /\ pending' = [i \in 1..Len(batteries) |-> << >>]
    /\ emitted' = [i \in 1..Len(batteries) |-> << >>]
    /\ target' = [i \in 1..Len(batteries) |-> ZeroDocs]
    /\ UNCHANGED <<env, mainPc, descs, described, logs, variant, batteries, net, ch,
                   panicked>>

\* A collector of no or one battery that is scraped again and again.
InitCycles ==
    /\ variant \in Variants
    /\ batteries \in {cfg \in Configs : Len(cfg) <= 1}
    /\ device = [ip \in IPs |-> DeviceOfIP(ip)]
    /\ net = CycleOutcomes
    /\ collectPc = "idle"
    /\ loopIdx = 1
    /\ wg = 0
    /\ taskPc = [i \in 1..Len(batteries) |-> "idle"]
    /\ arg = [i \in 1..Len(batteries) |-> NoBattery]
    /\ resp = [i \in 1..Len(batteries) |-> NoResps]
    /\ pending = [i \in 1..Len(batteries) |-> << >>]
    /\ ch = << >>
    /\ closed = FALSE
    /\ received = << >>
    /\ emitted = [i \in 1..Len(batteries) |-> << >>]
    /\ requests = << >>
    /\ panicked = FALSE
    /\ env = NoEnv
    /\ mainPc = "serving"
    /\ descs = NewCollector(variant)
    /\ described = << >>
    /\ logs = {}
    /\ prior = << >>
    /\ target = [i \in 1..Len(batteries) |-> ZeroDocs]

NextCycles ==
    \/ Next
    \/ NextScrape

SpecCycles == InitCycles /\ [][NextCycles]_vars

\* The current collector (part_001) alone.
InitCurrent == Init /\ variant = "part_001"

NextCurrent ==
    \/ Collect
    \/ CollectSpawn
    \/ CollectWait
    \/ \E i \in Tasks : CB_fetchLatestData(i)
    \/ \E i \in Tasks : CB_fetchStatus(i)
    \/ \E i \in Tasks : CB_send(i)
    \/ \E i \in Tasks : CB_done(i)
    \/ Drain
    \/ Close

\* The Go scheduler runs every runnable goroutine, a fetch returns within
\* the client's timeout, and the caller keeps receiving from the channel.
Fairness ==
    /\ WF_vars(Collect) /\ WF_vars(CollectSpawn) /\ WF_vars(CollectWait)
    /\ \A i \in 1..(MaxBatteries + 1) :
         /\ WF_vars(i \in Tasks /\ CB_fetchLatestData(i))
         /\ WF_vars(i \in Tasks /\ CB_fetchStatus(i))
         /\ WF_vars(i \in Tasks /\ CB_send(i))
         /\ WF_vars(i \in Tasks /\ CB_done(i))
    /\ WF_vars(Drain)
    /\ WF_vars(Close)

SpecLive == InitCurrent /\ [][NextCurrent]_vars /\ Fairness

(* ------------------------- vocabulary of the claims -------------------- *)
Returned == collectPc = "returned"

\* The answer is one of the failures of the error taxonomy / a good answer.
Failure(r) ==
    \/ r.net \in {"refused", "timeout"}
    \/ r.net = "response" /\ (r.code # 200 \/ ~r.valid)

Success(r) == r.net = "response" /\ r.code = 200 /\ r.valid

Health(i) == SelectSeq(emitted[i], LAMBDA m : m.desc = "scrapeSuccess")

HealthOnly(i, v) ==
    emitted[i] = << [desc |-> "scrapeSuccess", value |-> v, labels |-> <<batteries[i].Name>>] >>

Descs(i) == [k \in 1..Len(emitted[i]) |-> emitted[i][k].desc]

\* Every fetch collectBattery does for source i got a good answer.
AllOk(i) ==
    IF variant = "main_go"
    THEN Success(resp[i].system) /\ Success(resp[i].consumption) /\ Success(resp[i].status)
    ELSE Success(resp[i].latestdata) /\ Success(resp[i].status)

\* The first fetch of source i failed.
FirstFailed(i) ==
    IF variant = "main_go" THEN Failure(resp[i].system) ELSE Failure(resp[i].latestdata)

(* ------------------------------- claims -------------------------------- *)

\* C1: for every source list (0..MaxBatteries sources) and every combination
\* of fetch outcomes, a collection cycle eventually returns, provided the
\* goroutines are scheduled, every fetch returns and the caller keeps
\* draining the channel; in particular no deadlock is reachable.
C1_CollectReturns == <>(collectPc = "returned")

C1_Witness ==
    /\ Returned
    /\ Len(batteries) = 2
    /\ Failure(resp[1].latestdata)
    /\ Success(resp[2].latestdata) /\ Failure(resp[2].status)

\* C2: when Collect has returned, every configured source has a
\* scrape_success observation labelled only with its name, whatever the
\* fetch outcomes were.
C2_HealthAlwaysEmitted ==
    Returned =>
        \A i \in Tasks :
            \E k \in 1..Len(emitted[i]) :
                /\ emitted[i][k].desc = "scrapeSuccess"
                /\ emitted[i][k].labels = <<batteries[i].Name>>

C2_Witness ==
    /\ Returned
    /\ Len(batteries) = 2
    /\ \A i \in Tasks : FirstFailed(i)

\* C3: at every moment of a cycle, a source has at most one scrape_success
\* observation, on every path of collectBattery.
C3_AtMostOneHealth == \A i \in Tasks : Len(Health(i)) <= 1

C3_Witness ==
    /\ Returned
    /\ variant = "part_001"
    /\ \E i, j \in Tasks :
          /\ Failure(resp[i].latestdata)
          /\ Success(resp[j].latestdata) /\ Failure(resp[j].status)

\* C4: when the latestdata fetch of a source failed (connection error,
\* timeout, 401, 500, undecodable body), the cycle has exactly one
\* observation of that source: scrape_success = 0.
C4_LatestDataFailure ==
    Returned =>
        \A i \in Tasks : Failure(resp[i].latestdata) => HealthOnly(i, 0)

C4_Witness ==
    /\ Returned
    /\ \E i \in Tasks : resp[i].latestdata = Http(500, TRUE)

\* The fetches that must succeed for the source to count as scraped
\* succeeded (latestdata; in main.go system and consumption), and the status
\* fetch failed.
StatusOnlyFailed(i) ==
    /\ Failure(resp[i].status)
    /\ IF variant = "main_go"
       THEN Success(resp[i].system) /\ Success(resp[i].consumption)
       ELSE Success(resp[i].latestdata)

C6_StatusErrorFailsScrape ==
    (Returned /\ variant # "main_go") =>
        \A i \in Tasks :
            (Success(resp[i].latestdata) /\ Failure(resp[i].status)) => HealthOnly(i, 0)

C6_Witness ==
    /\ Returned
    /\ variant = "part_001"
    /\ \E i \in Tasks :
          /\ Success(resp[i].latestdata)
          /\ resp[i].status = Http(500, TRUE)
          /\ Len(emitted[i]) = 1

\* The descriptors a fully scraped source is observed under.
FullSet ==
    CASE variant = "part_001" ->
           {"scrapeSuccess", "chargeLevel", "userChargeLevel", "consumption",
            "production", "gridFeedIn", "batteryPower", "fullChargeCapacity",
            "charging", "discharging", "acVoltage", "batteryVoltage",
            "acFrequency", "info"}
      [] variant = "part_000" ->
           {"scrapeSuccess", "chargeLevel", "userChargeLevel", "consumption",
            "production", "gridFeedIn", "batteryPower", "fullChargeCapacity",
            "charging", "discharging", "info"}
      [] variant = "main_go" ->
           {"scrapeSuccess", "chargeLevel", "consumption", "production",
            "gridFeedIn", "charging", "discharging", "info"}

\* C7: whatever happens to the other sources, a source whose fetches all
\* succeeded has scrape_success = 1 and one observation of every descriptor,
\* all under its own name, when Collect returns.
C7_FailureIsolation ==
    Returned =>
        \A i \in Tasks :
            AllOk(i) =>
                /\ {emitted[i][k].desc : k \in 1..Len(emitted[i])} = FullSet
                /\ Len(emitted[i]) = Cardinality(FullSet)
                /\ \A k \in 1..Len(emitted[i]) :
                      /\ emitted[i][k].labels[1] = batteries[i].Name
                      /\ emitted[i][k].desc = "scrapeSuccess" => emitted[i][k].value = 1

C7_Witness ==
    /\ Returned
    /\ \E i, j \in Tasks :
          /\ FirstFailed(i)
          /\ AllOk(j)
          /\ Len(emitted[j]) = Cardinality(FullSet)

\* The label values and the numbers that source i's own configuration and
\* its own device's documents can give rise to.
OwnStrings(i) ==
    LET b == batteries[i]
        d == device[b.IP]
    IN { b.Name, b.IP,
         d.latestdata.ICStatus.StateBMS, d.latestdata.ICStatus.StateCoreControlModule,
         d.latestdata.ICStatus.StateInverter,
         Itoa(d.latestdata.ICStatus.NrBatteryModules),
         d.system.Model, d.system.MAC, d.system.SoftwareVersion,
         d.system.HardwareVersion, d.system.LED, d.system.IP, d.system.WanIP }

OwnNumbers(i) ==
    LET d == device[batteries[i].IP]
        watts == { d.latestdata.ConsumptionW, d.latestdata.ProductionW,
                   d.latestdata.GridFeedInW, d.latestdata.PacTotalW,
                   d.status.ConsumptionW, d.status.ProductionW,
                   d.status.GridFeedInW, d.status.PacTotalW }
    IN { 0, 1 } \cup { 1000 * w : w \in watts }
       \cup { d.latestdata.RSOC, d.latestdata.USOC, d.latestdata.FullChargeCapacity,
              d.status.Uac, d.status.Ubat, d.status.Fac,
              d.consumption.CurrentMW, d.apistatus.ChargeLevel,
              d.apistatus.ProductionMW, d.apistatus.GridFeedInMW }

\* What is in the channel or has been received from it.
Delivered == {ch[k] : k \in 1..Len(ch)} \cup DOMAIN received

\* C8: in every state of every interleaving, an observation sent by the
\* task of source i carries source i's name as battery_name and only label
\* values and a value of source i's own device; what is in the channel or
\* was received is what the task it is attributed to sent; a collector
\* without sources sends nothing.
C8_NoCrossContamination ==
    /\ \A i \in Tasks :
          LET strings == OwnStrings(i)
              numbers == OwnNumbers(i)
          IN \A k \in 1..Len(emitted[i]) :
                /\ emitted[i][k].labels[1] = batteries[i].Name
                /\ \A l \in 1..Len(emitted[i][k].labels) :
                      emitted[i][k].labels[l] \in strings
                /\ emitted[i][k].value \in numbers
    /\ \A x \in Delivered :
          /\ x.src \in Tasks
          /\ \E k \in 1..Len(emitted[x.src]) : emitted[x.src][k] = x.m
    /\ Len(batteries) = 0 => Delivered = {}

C8_Witness ==
    /\ Returned
    /\ Len(batteries) = 2
    /\ AllOk(1) /\ AllOk(2)
    /\ ch = << >>
    /\ Cardinality(DOMAIN received) = 2 * Cardinality(FullSet)

\* How often x was sent / is in the channel or was received.
SentCount(x) ==
    IF x.src \in Tasks
    THEN Cardinality({k \in 1..Len(emitted[x.src]) : emitted[x.src][k] = x.m})
    ELSE 0

DeliveredCount(x) ==
    Cardinality({k \in 1..Len(ch) : ch[k] = x})
      + (IF x \in DOMAIN received THEN received[x] ELSE 0)

Sent == UNION { {[src |-> i, m |-> emitted[i][k]] : k \in 1..Len(emitted[i])} : i \in Tasks }

\* C9: when Collect returns, under every interleaving, each source's
\* observations are those of collectBattery run on its own against the same
\* answers, in the same order, and the caller gets exactly that multiset.
C9_SameAsSequential ==
    Returned =>
        /\ \A i \in Tasks :
              emitted[i] = collectBattery(variant, batteries[i], resp[i],
                                          device[batteries[i].IP])
        /\ \A x \in Sent \cup Delivered : DeliveredCount(x) = SentCount(x)

C9_Witness ==
    /\ Returned
    /\ Len(batteries) = 2
    /\ AllOk(1)
    /\ StatusOnlyFailed(2)
    /\ ch = << >>

\* C10: Collect returns only when every goroutine it started has done all
\* its sends and has ended; nothing sent is lost, and no send meets a closed
\* channel, so the caller may close the channel right after Collect.
C10_JoinBarrier ==
    /\ Returned =>
          \A i \in Tasks : taskPc[i] = "finished" /\ pending[i] = << >>
    /\ closed => Returned
    /\ ~panicked
    /\ \A x \in Sent : DeliveredCount(x) = 1

C10_Witness ==
    /\ closed
    /\ Len(batteries) = 2
    /\ AllOk(1)
    /\ FirstFailed(2)
    /\ ch = << >>

\* A fetch that collectBattery cannot do without failed for source i.
RequiredFailed(i) ==
    IF variant = "main_go"
    THEN Failure(resp[i].system)
         \/ (Success(resp[i].system) /\ Failure(resp[i].consumption))
    ELSE Failure(resp[i].latestdata)
         \/ (Success(resp[i].latestdata) /\ Failure(resp[i].status))

\* C11: whatever the fetches of the sources come back with, also when every
\* source is unreachable, no goroutine of the cycle panics (no constructor
\* panic, no send on a closed channel) and nothing is left undone; a source
\* whose scrape failed shows as the single observation scrape_success = 0.
C11_NoPanic ==
    /\ ~panicked
    /\ \A i \in Tasks : taskPc[i] = "send" =>
          ~mustNewConstMetricPanics(descs, Head(pending[i]))
    /\ Returned =>
          \A i \in Tasks :
             /\ taskPc[i] = "finished"
             /\ RequiredFailed(i) => HealthOnly(i, 0)

C11_Witness ==
    /\ closed
    /\ ~panicked
    /\ Len(batteries) = 2
    /\ \A i \in Tasks :
          IF variant = "main_go" THEN resp[i].system = TimedOut
          ELSE resp[i].latestdata = TimedOut

\* The value a label of source i must carry, by the label's name.
LabelValue(i, name) ==
    LET b == batteries[i]
        d == device[b.IP]
    IN CASE name = "battery_name"       -> b.Name
         [] name = "bms_state"          -> d.latestdata.ICStatus.StateBMS
         [] name = "core_control_state" -> d.latestdata.ICStatus.StateCoreControlModule
         [] name = "inverter_state"     -> d.latestdata.ICStatus.StateInverter
         [] name = "battery_modules"    -> Itoa(d.latestdata.ICStatus.NrBatteryModules)
         [] name = "ip"      -> IF variant = "main_go" THEN d.system.IP ELSE b.IP
         [] name = "model"      -> d.system.Model
         [] name = "mac"        -> d.system.MAC
         [] name = "sw_version" -> d.system.SoftwareVersion
         [] name = "hw_version" -> d.system.HardwareVersion
         [] name = "led"        -> d.system.LED
         [] name = "wan_ip"     -> d.system.WanIP

\* C12: every observation a task has sent is built from a descriptor field
\* of the Collector that every call of Describe reported, with as many label
\* values as the descriptor has label names, each value being the one its
\* label name stands for; the descriptors are those NewCollector made.
C12_ObservationsMatchDescriptors ==
    /\ descs = NewCollector(variant)
    /\ \A i \in Tasks : \A k \in 1..Len(emitted[i]) :
          LET m == emitted[i][k]
          IN /\ m.desc \in DOMAIN descs
             /\ \A c \in 1..Len(described) :
                   \E n \in 1..Len(described[c]) : described[c][n] = descs[m.desc]
             /\ Len(m.labels) = Len(descs[m.desc].variableLabels)
             /\ \A l \in 1..Len(m.labels) :
                   m.labels[l] = LabelValue(i, descs[m.desc].variableLabels[l])

C12_Witness ==
    /\ Returned
    /\ variant = "part_001"
    /\ Len(batteries) = 1
    /\ AllOk(1)
    /\ Len(emitted[1]) = 14
    /\ Len(described) = 2

\* The metric names of the current collector, in the order Describe sends
\* them.
CurrentNames ==
    << "sonnenbatterie_charge_level_percent", "sonnenbatterie_user_charge_level_percent",
       "sonnenbatterie_consumption_mw", "sonnenbatterie_production_mw",
       "sonnenbatterie_grid_feed_in_mw", "sonnenbatterie_battery_power_mw",
       "sonnenbatterie_charging", "sonnenbatterie_discharging",
       "sonnenbatterie_full_charge_capacity_wh", "sonnenbatterie_ac_voltage",
       "sonnenbatterie_battery_voltage", "sonnenbatterie_ac_frequency",
       "sonnenbatterie_info", "sonnenbatterie_scrape_success" >>

RECURSIVE TotalEmitted(_)
TotalEmitted(n) == IF n = 0 THEN 0 ELSE Len(emitted[n]) + TotalEmitted(n - 1)

RECURSIVE BagTotal(_, _)
BagTotal(bag, xs) ==
    IF xs = {} THEN 0
    ELSE LET x == CHOOSE y \in xs : TRUE
         IN bag[x] + BagTotal(bag, xs \ {x})

AllSent(i) == taskPc[i] \in {"exit", "finished"}

Has(i, f) == \E k \in 1..Len(emitted[i]) : emitted[i][k].desc = f

\* The value of source i's observation of descriptor field f.
ValueOf(i, f) ==
    emitted[i][CHOOSE k \in 1..Len(emitted[i]) : emitted[i][k].desc = f].value

LabelsOf(i, f) ==
    emitted[i][CHOOSE k \in 1..Len(emitted[i]) : emitted[i][k].desc = f].labels

\* C15 as claimed: whatever the device answers, a source never has both a
\* charging observation of 1 and a discharging observation of 1.
C15_NeverBoth ==
    \A i \in Tasks :
        ~ (/\ Has(i, "charging") /\ ValueOf(i, "charging") = 1
           /\ Has(i, "discharging") /\ ValueOf(i, "discharging") = 1)

\* C16: a source whose fetches succeeded has its four watt fields sent as
\* exactly 1000 times the upstream number (status in part_001, latestdata in
\* part_000), negative, zero or positive, and RSOC, USOC and the full charge
\* capacity sent as they are.
C16_MilliwattScaling ==
    \A i \in Tasks :
        (variant # "main_go" /\ AllOk(i) /\ AllSent(i)) =>
            LET d == device[batteries[i].IP]
                w == IF variant = "part_001" THEN d.status ELSE d.latestdata
            IN /\ Has(i, "consumption") /\ ValueOf(i, "consumption") = 1000 * w.ConsumptionW
               /\ Has(i, "production") /\ ValueOf(i, "production") = 1000 * w.ProductionW
               /\ Has(i, "gridFeedIn") /\ ValueOf(i, "gridFeedIn") = 1000 * w.GridFeedInW
               /\ Has(i, "batteryPower") /\ ValueOf(i, "batteryPower") = 1000 * w.PacTotalW
               /\ Has(i, "chargeLevel") /\ ValueOf(i, "chargeLevel") = d.latestdata.RSOC
               /\ Has(i, "userChargeLevel") /\ ValueOf(i, "userChargeLevel") = d.latestdata.USOC
               /\ Has(i, "fullChargeCapacity")
               /\ ValueOf(i, "fullChargeCapacity") = d.latestdata.FullChargeCapacity

C16_Witness ==
    /\ Returned
    /\ variant = "part_001"
    /\ Len(batteries) = 1
    /\ AllOk(1)
    /\ device[batteries[1].IP].status.ConsumptionW < 0
    /\ device[batteries[1].IP].status.GridFeedInW > 0
    /\ Has(1, "consumption") /\ ValueOf(1, "consumption") = 0 - 3000

\* What is taken from the combined shape in both collector.go revisions:
\* charge level, user charge level, full charge capacity, the state labels.
FromCombined(i) ==
    LET d == device[batteries[i].IP]
    IN /\ Has(i, "chargeLevel") /\ ValueOf(i, "chargeLevel") = d.latestdata.RSOC
       /\ Has(i, "userChargeLevel") /\ ValueOf(i, "userChargeLevel") = d.latestdata.USOC
       /\ Has(i, "fullChargeCapacity")
       /\ ValueOf(i, "fullChargeCapacity") = d.latestdata.FullChargeCapacity
       /\ LabelsOf(i, "chargeLevel") =
             <<batteries[i].Name, d.latestdata.ICStatus.StateBMS,
               d.latestdata.ICStatus.StateInverter>>

\* The four power values are those of document w, in milliwatts.
PowerFrom(i, w) ==
    /\ Has(i, "consumption") /\ ValueOf(i, "consumption") = 1000 * w.ConsumptionW
    /\ Has(i, "production") /\ ValueOf(i, "production") = 1000 * w.ProductionW
    /\ Has(i, "gridFeedIn") /\ ValueOf(i, "gridFeedIn") = 1000 * w.GridFeedInW
    /\ Has(i, "batteryPower") /\ ValueOf(i, "batteryPower") = 1000 * w.PacTotalW

\* C17 as claimed: whenever latestdata and status were both fetched, the
\* four power values are those of the status document and the charge
\* levels, the capacity and the state labels those of latestdata.
C17_AsClaimed ==
    \A i \in Tasks :
        (variant # "main_go" /\ AllOk(i) /\ AllSent(i)) =>
            /\ PowerFrom(i, device[batteries[i].IP].status)
            /\ FromCombined(i)

\* C17 amended: that holds of the current collector (part_001); the earlier
\* revision part_000 takes the four power values from latestdata as well.
C17_SourcesOfValues ==
    \A i \in Tasks :
        (variant # "main_go" /\ AllOk(i) /\ AllSent(i)) =>
            /\ FromCombined(i)
            /\ IF variant = "part_001"
               THEN PowerFrom(i, device[batteries[i].IP].status)
               ELSE PowerFrom(i, device[batteries[i].IP].latestdata)

C17_Witness ==
    /\ variant = "part_001"
    /\ Len(batteries) = 1
    /\ AllOk(1) /\ AllSent(1)
    /\ device[batteries[1].IP].status.ConsumptionW = 4
    /\ device[batteries[1].IP].latestdata.ConsumptionW = 7
    /\ Has(1, "consumption") /\ ValueOf(1, "consumption") = 4000

\* The metrics main.go can compute only from the status document.
StatusOnlyFields == {"chargeLevel", "production", "gridFeedIn", "charging", "discharging"}

\* C18: in main.go, a source whose status fetch failed after system and
\* consumption were fetched never has an observation of a metric that needs
\* the status document (none is sent, queued, in the channel or received,
\* with 0 or any other value), and once its sends are done it has
\* scrape_success = 1, consumption and info with the fetched values.
C18_StatusMetricsOmitted ==
    \A i \in Tasks :
        (variant = "main_go" /\ StatusOnlyFailed(i)) =>
            /\ \A k \in 1..Len(emitted[i]) : emitted[i][k].desc \notin StatusOnlyFields
            /\ \A k \in 1..Len(pending[i]) : pending[i][k].desc \notin StatusOnlyFields
            /\ \A x \in Delivered : x.src = i => x.m.desc \notin StatusOnlyFields
            /\ AllSent(i) =>
                  /\ Len(emitted[i]) = 3
                  /\ Has(i, "scrapeSuccess") /\ ValueOf(i, "scrapeSuccess") = 1
                  /\ Has(i, "consumption")
                  /\ ValueOf(i, "consumption") = device[batteries[i].IP].consumption.CurrentMW
                  /\ Has(i, "info") /\ ValueOf(i, "info") = 1
                  /\ LabelsOf(i, "info")[2] = device[batteries[i].IP].system.Model

C18_Witness ==
    /\ variant = "main_go"
    /\ Returned
    /\ Len(batteries) = 1
    /\ Success(resp[1].system) /\ Success(resp[1].consumption)
    /\ resp[1].status = Http(404, FALSE)
    /\ Len(emitted[1]) = 3

\* The answer is an HTTP response whose status is outside 200..299.
NonSuccessStatus(r) == r.net = "response" /\ (r.code < 200 \/ r.code > 299)

Endpoints == {"latestdata", "status", "system", "consumption"}

\* Where task i keeps the document of the endpoint.
TargetOf(i, e) ==
    IF variant = "main_go" /\ e = "status" THEN target[i].apistatus ELSE target[i][e]

ZeroOf(e) ==
    IF variant = "main_go" /\ e = "status" THEN ZeroDocs.apistatus ELSE ZeroDocs[e]

\* The log line that reports the status code the endpoint of source i
\* answered with.
StatusCodeLine(i, e) ==
    LET name == batteries[i].Name
        host == "http://" \o batteries[i].IP
        code == Itoa(resp[i][e].code)
    IN CASE e = "latestdata" ->
              "Error fetching latest data for " \o name \o ": unexpected status code "
                \o code \o " from " \o host \o "/api/v2/latestdata"
         [] e = "system" ->
              "Error fetching system info for " \o name \o ": unexpected status code "
                \o code \o " from " \o host \o "/api/system"
         [] e = "consumption" ->
              "Error fetching consumption for " \o name \o ": unexpected status code "
                \o code \o " from " \o host \o "/api/consumption"
         [] e = "status" /\ variant # "main_go" ->
              "Error fetching status for " \o name \o ": unexpected status code "
                \o code \o " from " \o host \o "/api/v2/status"
         [] e = "status" /\ variant = "main_go" ->
              "Warning: Could not fetch status for " \o name
                \o " (will use partial metrics): unexpected status code "
                \o code \o " from " \o host \o "/api/status"

\* The error of the fetch carries the code, and nothing was decoded.
StatusErrorReported(i, e) ==
    /\ StatusCodeLine(i, e) \in logs
    /\ TargetOf(i, e) = ZeroOf(e)

\* C20 as claimed: a fetch answered with a status outside 2xx returns an
\* error with the code in it, decodes nothing into its target, and the
\* source ends the cycle with scrape_success = 0 alone.
C20_AsClaimed ==
    \A i \in Tasks : \A e \in Endpoints :
        NonSuccessStatus(resp[i][e]) =>
            /\ StatusErrorReported(i, e)
            /\ AllSent(i) => HealthOnly(i, 0)

\* C20 amended: the error carries the code and nothing is decoded, for
\* every fetch; the source is marked failed when the fetch is one the
\* collector requires (every fetch of collector.go, system and consumption
\* of main.go), while main.go's status fetch leaves scrape_success = 1.
C20_NonSuccessStatus ==
    \A i \in Tasks : \A e \in Endpoints :
        NonSuccessStatus(resp[i][e]) =>
            /\ StatusErrorReported(i, e)
            /\ AllSent(i) =>
                  IF variant = "main_go" /\ e = "status"
                  THEN Has(i, "scrapeSuccess") /\ ValueOf(i, "scrapeSuccess") = 1
                  ELSE HealthOnly(i, 0)

C20_Witness ==
    /\ Returned
    /\ variant = "part_001"
    /\ Len(batteries) = 1
    /\ Success(resp[1].latestdata)
    /\ resp[1].status = Http(302, TRUE)
    /\ HealthOnly(1, 0)

\* A value without any word: unset, empty, or only commas and blanks.
AllBlank(s) == \A k \in 1..Len(s) : s[k] \in {",", " "}

\* The i-th comma-separated entry of s has a word.
HasWordAt(s, i) == i <= Len(Split(s)) /\ ~AllBlank(Split(s)[i])

\* The configuration yields no valid source: the variables are unset or
\* every entry is blank (config.go: no position has both an IP and a token;
\* main.go: no URL in the list it reads).
NoValidSource ==
    IF variant = "main_go"
    THEN AllBlank(IF env.urls = << >> THEN env.url ELSE env.urls)
    ELSE \/ AllBlank(env.ips)
         \/ AllBlank(env.tokens)
         \/ /\ Len(Split(env.ips)) = Len(Split(env.tokens))
            /\ \A i \in 1..Len(Split(env.ips)) :
                  ~(HasWordAt(env.ips, i) /\ HasWordAt(env.tokens, i))

ConfigurationErrors ==
    { "Configuration error: SONNENBATTERIE_IPS must be set",
      "Configuration error: SONNENBATTERIE_TOKENS must be set",
      "Configuration error: no valid batteries configured",
      "Configuration error: no valid battery URLs configured",
      "Configuration error: SONNENBATTERIE_API_URLS or SONNENBATTERIE_API_URL must be set" }
    \cup { "Configuration error: number of IPs (" \o Itoa(a)
             \o ") must match number of tokens (" \o Itoa(b) \o ")"
           : a \in 1..4, b \in 1..4 }

\* C19: when the configuration yields no valid source, main ends with the
\* error of parseBatteries (never with an empty list) and no collector is
\* built, nothing is described, fetched or sent; a collector that serves
\* has at least one battery, so no cycle starts on an empty list.
C19_FailFast ==
    /\ (NoValidSource /\ mainPc # "start") =>
          /\ mainPc = "fatal"
          /\ logs \cap ConfigurationErrors # {}
    /\ mainPc = "fatal" =>
          /\ batteries = << >> /\ descs = NoCollector /\ described = << >>
          /\ collectPc = "idle" /\ requests = << >> /\ ch = << >>
    /\ mainPc = "serving" => Len(batteries) >= 1
    /\ collectPc # "idle" => (mainPc = "serving" /\ Len(batteries) >= 1)

C19_Witness ==
    /\ variant = "part_001"
    /\ mainPc = "fatal"
    /\ env.ips = <<" ", ",", " ">>
    /\ env.tokens = <<BatteryAt(1).AuthToken, ",", BatteryAt(2).AuthToken>>
    /\ "Configuration error: no valid batteries configured" \in logs

\* The answer is a 200 whose body is not JSON.
InvalidBody(r) == r.net = "response" /\ r.code = 200 /\ ~r.valid

\* The log line of collector.go for a fetch of endpoint e of source i that
\* failed with the given error text.
FetchErrorLine(i, e, text) ==
    LET b == batteries[i]
    IN IF e = "latestdata"
       THEN "Error fetching latest data for " \o b.Name \o ": " \o text
              \o "http://" \o b.IP \o "/api/v2/latestdata"
       ELSE "Error fetching status for " \o b.Name \o ": " \o text
              \o "http://" \o b.IP \o "/api/v2/status"

\* The fetch of endpoint e of source i got a body that is not JSON.
GotInvalidBody(i, e) == i \in Tasks /\ InvalidBody(resp[i][e])

\* C21: when a source of the collector answers 200 with a body that is not
\* JSON, nothing panics, the fetch leaves no document and its error is
\* logged as a decode failure of that URL and not as the transport failure
\* ("failed to fetch"), the source sends scrape_success = 0 and nothing
\* else, and the cycle goes on to return (a cycle that has returned has
\* exactly that observation of the source).
C21_InvalidBody ==
    /\ [](\A i \in Tasks : \A e \in {"latestdata", "status"} :
             InvalidBody(resp[i][e]) =>
                /\ ~panicked
                /\ target[i][e] = ZeroDocs[e]
                /\ (FetchErrorLine(i, e, "failed to decode JSON from ") \o ": invalid") \in logs
                /\ \A n \in {"refused", "timeout"} :
                      (FetchErrorLine(i, e, "failed to fetch ") \o ": " \o n) \notin logs
                /\ \A k \in 1..Len(emitted[i]) :
                      emitted[i][k] = Metric("scrapeSuccess", 0, <<batteries[i].Name>>)
                /\ AllSent(i) => HealthOnly(i, 0)
                /\ Returned => HealthOnly(i, 0))
    /\ (\E i \in Tasks : \E e \in {"latestdata", "status"} : GotInvalidBody(i, e))
          ~> Returned

C21_Witness ==
    /\ Returned
    /\ ~panicked
    /\ Len(batteries) = 1
    /\ Success(resp[1].latestdata)
    /\ resp[1].status = Http(200, FALSE)
    /\ HealthOnly(1, 0)

\* C22: every request issued in a cycle goes to the host of a configured
\* source with an endpoint of the revision, and its Auth-Token header is the
\* token configured for that very source (collector.go) and the token of no
\* other source; main.go, whose sources have no token, sends none.  This
\* holds in every interleaving of the tasks.
C22_OwnCredential ==
    \A q \in DOMAIN requests :
        /\ \E i \in Tasks :
              /\ batteries[i].IP = q.host
              /\ q.token = IF variant = "main_go" THEN "" ELSE batteries[i].AuthToken
        /\ \A j \in Tasks :
              batteries[j].IP # q.host => q.token # batteries[j].AuthToken
        /\ q.path \in (IF variant = "main_go"
                       THEN {"/api/system", "/api/consumption", "/api/status"}
                       ELSE {"/api/v2/latestdata", "/api/v2/status"})

C22_Witness ==
    /\ variant = "part_001"
    /\ Len(batteries) = 2
    /\ Cardinality(DOMAIN requests) = 4
    /\ \E q \in DOMAIN requests : q.host = batteries[2].IP /\ q.token = "token2"
    /\ taskPc[1] = "send" /\ taskPc[2] = "send"

\* C23 as claimed: the battery list parseBatteries returned to main has
\* pairwise distinct names, whatever names are configured, left blank or
\* generated.
C23_DistinctNames ==
    mainPc = "serving" =>
        \A i \in Tasks : \A j \in Tasks :
            i # j => batteries[i].Name # batteries[j].Name

\* The text of an entry without the blanks around it.
Word(s) ==
    LET nb == {k \in 1..Len(s) : s[k] # " "}
        lo == CHOOSE k \in nb : \A j \in nb : k <= j
        hi == CHOOSE k \in nb : \A j \in nb : k >= j
    IN Join(SubSeq(s, lo, hi))

\* The positions (from 1) of the IP list that have both an IP and a token.
KeptPositions ==
    {i \in 1..Len(Split(env.ips)) : HasWordAt(env.ips, i) /\ HasWordAt(env.tokens, i)}

\* The k-th kept position.
KeptAt(k) ==
    CHOOSE i \in KeptPositions : Cardinality({j \in KeptPositions : j < i}) = k - 1

\* C24: with both variables set and as many IPs as tokens, config.go's
\* parseBatteries returns one battery for each position that has a
\* non-blank IP and a non-blank token and none for the others, in the
\* configured order, the battery of position i made of the trimmed i-th IP
\* and the trimmed i-th token, named by the trimmed i-th configured name
\* when that is not blank and otherwise battery<i-1>: the position counted
\* from 0 in the original list, skipped positions included.
C24_SkipPairDefault ==
    (/\ variant # "main_go" /\ mainPc # "start"
     /\ env.ips # << >> /\ env.tokens # << >>
     /\ Len(Split(env.ips)) = Len(Split(env.tokens))) =>
        IF KeptPositions = {} THEN mainPc = "fatal"
        ELSE /\ mainPc = "serving"
             /\ Len(batteries) = Cardinality(KeptPositions)
             /\ \A k \in 1..Len(batteries) :
                   LET i == KeptAt(k)
                   IN /\ batteries[k].IP = Word(Split(env.ips)[i])
                      /\ batteries[k].AuthToken = Word(Split(env.tokens)[i])
                      /\ batteries[k].Name =
                            IF HasWordAt(env.names, i) THEN Word(Split(env.names)[i])
                            ELSE "battery" \o Itoa(i - 1)

C24_Witness ==
    /\ variant = "part_001"
    /\ mainPc = "serving"
    /\ env.ips = <<",", BatteryAt(2).IP>>
    /\ env.tokens = <<",", BatteryAt(2).AuthToken>>
    /\ env.names = <<"house">>
    /\ batteries = << [Name |-> "battery1", IP |-> "10.0.0.2", AuthToken |-> "token2"] >>

\* The number of comma-separated entries of a value.
EntryCount(s) == Cardinality({k \in 1..Len(s) : s[k] = ","}) + 1

\* The error config.go's parseBatteries owes to the environment when one of
\* the two variables is unset or empty or their entry counts differ.
CountOrUnsetError ==
    IF env.ips = << >> THEN "SONNENBATTERIE_IPS must be set"
    ELSE IF env.tokens = << >> THEN "SONNENBATTERIE_TOKENS must be set"
    ELSE "number of IPs (" \o Itoa(EntryCount(env.ips))
           \o ") must match number of tokens (" \o Itoa(EntryCount(env.tokens)) \o ")"

\* C25: when SONNENBATTERIE_IPS or SONNENBATTERIE_TOKENS is unset or empty,
\* or the two have different numbers of comma-separated entries, config.go's
\* parseBatteries returns its error for that case and no battery list: main
\* ends on that error with no battery, no collector and no cycle.
C25_MismatchOrUnset ==
    (/\ variant # "main_go" /\ mainPc # "start"
     /\ \/ env.ips = << >>
        \/ env.tokens = << >>
        \/ EntryCount(env.ips) # EntryCount(env.tokens)) =>
        /\ mainPc = "fatal"
        /\ logs = {"Configuration error: " \o CountOrUnsetError}
        /\ batteries = << >>
        /\ descs = NoCollector
        /\ collectPc = "idle"

C25_Witness ==
    /\ variant = "part_001"
    /\ mainPc = "fatal"
    /\ env.ips = <<BatteryAt(1).IP, ",", BatteryAt(2).IP>>
    /\ env.tokens = <<BatteryAt(1).AuthToken>>
    /\ "Configuration error: number of IPs (2) must match number of tokens (1)" \in logs

\* C26: in main.go, a source whose three fetches succeeded sends one
\* charging and one discharging observation, decided by the ChargeMode
\* string of its status document alone: (1, 0) for "charging", (0, 1) for
\* "discharging", (0, 0) for every other value ("idle", "Charging").
C26_ChargeMode ==
    \A i \in Tasks :
        (variant = "main_go" /\ AllOk(i) /\ AllSent(i)) =>
            LET mode == device[batteries[i].IP].apistatus.ChargeMode
            IN /\ Cardinality({k \in 1..Len(emitted[i]) :
                                  emitted[i][k].desc = "charging"}) = 1
               /\ Cardinality({k \in 1..Len(emitted[i]) :
                                  emitted[i][k].desc = "discharging"}) = 1
               /\ <<ValueOf(i, "charging"), ValueOf(i, "discharging")>> =
                     CASE mode = "charging"    -> <<1, 0>>
                       [] mode = "discharging" -> <<0, 1>>
                       [] OTHER                -> <<0, 0>>

C26_Witness ==
    /\ variant = "main_go"
    /\ Returned
    /\ Len(batteries) = 1
    /\ AllOk(1)
    /\ device[batteries[1].IP].apistatus.ChargeMode = "Charging"
    /\ Has(1, "charging") /\ ValueOf(1, "charging") = 0
    /\ Has(1, "discharging") /\ ValueOf(1, "discharging") = 0

\* How many requests for the path the host of source i was sent.
RequestCount(i, path) ==
    BagTotal(requests, {q \in DOMAIN requests :
                           q.host = batteries[i].IP /\ q.path = path})

\* The endpoints collectBattery asks for, in program order, with the field
\* of resp that holds the answer.
FetchOrder ==
    IF variant = "main_go"
    THEN << [path |-> "/api/system", e |-> "system"],
            [path |-> "/api/consumption", e |-> "consumption"],
            [path |-> "/api/status", e |-> "status"] >>
    ELSE << [path |-> "/api/v2/latestdata", e |-> "latestdata"],
            [path |-> "/api/v2/status", e |-> "status"] >>

FromCurrentDocs(i) ==
    LET d == device[batteries[i].IP]
    IN CASE variant = "part_001" -> FromCombined(i) /\ PowerFrom(i, d.status)
         [] variant = "part_000" -> FromCombined(i) /\ PowerFrom(i, d.latestdata)
         [] variant = "main_go"  ->
              /\ Has(i, "consumption") /\ ValueOf(i, "consumption") = d.consumption.CurrentMW
              /\ Has(i, "chargeLevel") /\ ValueOf(i, "chargeLevel") = d.apistatus.ChargeLevel
              /\ LabelsOf(i, "consumption") = <<batteries[i].Name, d.system.Model, d.system.MAC>>

\* C28: in every cycle of a run of scrapes, the first or a later one, the
\* Collector is the one NewCollector built, what a source has sent once its
\* task is through is decided by the answers of this cycle (scrape_success =
\* 0 alone when a required fetch failed; the full set with the values of
\* the documents served now when every fetch succeeded, also when the cycle
\* before failed), equal answers and documents in two cycles give equal
\* sends, and what is in the channel or with the caller was sent in this
\* cycle, each observation as often as it was sent.
C28_NoStateAcrossCycles ==
    /\ descs = NewCollector(variant)
    /\ \A i \in Tasks :
          AllSent(i) =>
             /\ RequiredFailed(i) => HealthOnly(i, 0)
             /\ AllOk(i) =>
                   /\ {emitted[i][k].desc : k \in 1..Len(emitted[i])} = FullSet
                   /\ Len(emitted[i]) = Cardinality(FullSet)
                   /\ ValueOf(i, "scrapeSuccess") = 1
                   /\ FromCurrentDocs(i)
             /\ \A c \in 1..Len(prior) :
                   (prior[c].resp[i] = resp[i] /\ prior[c].device = device) =>
                      prior[c].emitted[i] = emitted[i]
    /\ \A x \in Delivered : DeliveredCount(x) <= SentCount(x)
    /\ Len(ch) + BagTotal(received, DOMAIN received) <= TotalEmitted(Len(batteries))

C28_Witness ==
    /\ variant = "part_001"
    /\ Len(batteries) = 1
    /\ Len(prior) = 1
    /\ prior[1].resp[1].latestdata = TimedOut
    /\ prior[1].emitted[1] = << Metric("scrapeSuccess", 0, <<"house">>) >>
    /\ prior[1].device # device
    /\ Returned
    /\ AllOk(1)
    /\ Len(emitted[1]) = 14

\* C29: in collector.go (part_000, part_001), in every state of a cycle,
\* the first observation a task has sent is its scrape_success and it is
\* the only scrape_success it sends; after scrape_success = 0 the task sends
\* nothing more; after scrape_success = 1, which is sent only when both
\* fetches succeeded, the task has no way out but through the remaining
\* sends: what it has sent and what it has still to send are together one
\* observation of every descriptor, and when it is through the set is
\* complete.
C29_HealthFirst ==
    \A i \in Tasks :
        (variant # "main_go" /\ emitted[i] # << >>) =>
            /\ emitted[i][1].desc = "scrapeSuccess"
            /\ Len(Health(i)) = 1
            /\ \A k \in 1..Len(pending[i]) : pending[i][k].desc # "scrapeSuccess"
            /\ emitted[i][1].value \in {0, 1}
            /\ emitted[i][1].value = 0 => (Len(emitted[i]) = 1 /\ pending[i] = << >>)
            /\ emitted[i][1].value = 1 =>
                  /\ AllOk(i)
                  /\ taskPc[i] \in {"send", "exit", "finished"}
                  /\ {m.desc : m \in {emitted[i][k] : k \in 1..Len(emitted[i])}
                                  \cup {pending[i][k] : k \in 1..Len(pending[i])}} = FullSet
                  /\ Len(emitted[i]) + Len(pending[i]) = Cardinality(FullSet)
                  /\ AllSent(i) => Len(emitted[i]) = Cardinality(FullSet)

C29_Witness ==
    /\ variant = "part_000"
    /\ Len(batteries) = 2
    /\ taskPc[1] = "send"
    /\ Len(emitted[1]) = 3
    /\ emitted[1][1] = Metric("scrapeSuccess", 1, <<"house">>)
    /\ Len(pending[1]) = 8
    /\ HealthOnly(2, 0)

\* The answer is an HTTP response with a status other than 200.
Not200(r) == r.net = "response" /\ r.code # 200

\* C30 as claimed: a fetch answered with any status but 200 (201 and 204
\* too) returns the unexpected-status error, decodes nothing, and the
\* source ends the cycle marked failed.
C30_AsClaimed ==
    \A i \in Tasks : \A e \in Endpoints :
        Not200(resp[i][e]) =>
            /\ StatusErrorReported(i, e)
            /\ AllSent(i) => HealthOnly(i, 0)

\* C30 amended: a fetch is successful only on status 200 (then the body is
\* decoded); any other status, 201 and 204 too, yields the unexpected-status
\* error with nothing decoded; the source is marked failed when the fetch
\* is one the collector requires, while main.go's status fetch leaves
\* scrape_success = 1.
C30_Exactly200 ==
    \A i \in Tasks : \A e \in Endpoints :
        /\ Not200(resp[i][e]) =>
              /\ StatusErrorReported(i, e)
              /\ AllSent(i) =>
                    IF variant = "main_go" /\ e = "status"
                    THEN Has(i, "scrapeSuccess") /\ ValueOf(i, "scrapeSuccess") = 1
                    ELSE HealthOnly(i, 0)
        /\ (resp[i][e].net = "response" /\ TargetOf(i, e) # ZeroOf(e)) =>
              resp[i][e].code = 200

C30_Witness ==
    /\ Returned
    /\ variant = "part_001"
    /\ Len(batteries) = 1
    /\ resp[1].latestdata = Http(201, TRUE)
    /\ target[1].latestdata = ZeroDocs.latestdata
    /\ HealthOnly(1, 0)

====
